---------------------------- MODULE Spec2Model ----------------------------
(***************************************************************************)
(* duck_server: the PostgreSQL-style front-end of an embedded analytical   *)
(* engine.  The model follows pg_conn.go (connection worker), pg_auth.go   *)
(* (SCRAM-SHA-256), pg_server.go (accept loop, cancel-key table) and       *)
(* message.go / wire.go (frames).  One worker goroutine per connection;    *)
(* a step of the model is what the worker does between two blocking reads  *)
(* of a client frame, except that a statement in flight (cancellation      *)
(* handle installed) is a state of its own.                                *)
(***************************************************************************)
EXTENDS Integers, Sequences, FiniteSets, TLC

(***************************************************************************)
(* Bounds of the model.                                                    *)
(***************************************************************************)
MaxRows == 1
MaxHandles == 1
MaxBody == 2
MaxFrames == 2
MaxCopyData == 4
MaxObjects == 2
MaxSql == 3
MaxArgs == 1
MaxRead == 2

(***************************************************************************)
(* Program constants.                                                      *)
(***************************************************************************)
maxInputArgsUsePrepared == 20
HmacLen == 32

Conns == {1, 2}

(***************************************************************************)
(* message.go: outbound frame tags.                                        *)
(***************************************************************************)
Authentication == "R"
BackendKeyData == "K"
BindComplete == "2"
CommandComplete == "C"
DataRow == "D"
EmptyQueryResponse == "I"
ErrorResponse == "E"
NoData == "n"
ParameterDescription == "t"
ParameterStatus == "S"
ParseComplete == "1"
ReadyForQuery == "Z"
CopyFail == "f"
CopyData == "d"
CopyDone == "c"
CopyInResponse == "G"
RowDescription == "T"
TransactionStatusIdle == "I"

\* NewMessage(typ, payload): a tagged frame; Length is set to len(payload)+4
\* by the constructor, so the frame is determined by its tag and payload.
NewMessage(typ, payload) == [t |-> typ, body |-> payload]

\* The tags of a sequence of frames.
FrameTypes(fs) == [i \in 1..Len(fs) |-> fs[i].t]

\* &ReadyForQueryMessage{Status: s}
ReadyForQueryMessage(s) == [t |-> ReadyForQuery, body |-> s]

\* Wire.WriteAuthOK writes the literal bytes 'R',0,0,0,8,0,0,0,0:
\* an Authentication frame with selector 0.
AuthOKFrame == [t |-> Authentication, body |-> <<0, "">>]

\* NewAuthenticationSASLMessage(mechanisms): Authentication frame, selector 10.
NewAuthenticationSASLMessage(mechs) == [t |-> Authentication, body |-> <<10, mechs>>]

\* The frame SendErrorResponse builds: S=ERROR, C=SQL-0000, M=<errStr>.
ErrorFrame(errStr) == NewMessage(ErrorResponse, <<"ERROR", "SQL-0000", errStr>>)

\* err.Error() of an error the engine (or the database/sql layer) returns
\* from the call named what.
EngineError(what) == <<"engine: ", what>>

\* SendCommandComplete(tag)
CommandCompleteFrame(tag) == NewMessage(CommandComplete, tag)

\* fmt.Sprintf("(%d row)", rowCount)
RowTag(n) == <<"(", n, " row)">>

\* The three entries of the parameterStatus map.
parameterStatus ==
  { <<"client_encoding", "UTF8">>,
    <<"server_version", "16.0-duckdb-1.0.0">>,
    <<"standard_conforming_strings", "on">> }


(***************************************************************************)
(* Inputs.  SQL texts are sequences of tokens, so that the prefix tests    *)
(* and the patterns of the code are computed on them.                      *)
(***************************************************************************)
Users == {"alice", "bob", "mal"}
Passwords == {"secret", "wrong"}
StmtNames == {"", "s1"}
PortalNames == {""}

QEmpty == << >>
QSpace == <<" ">>
QDiscard == <<"discard", "all">>
QCreateUser == <<"create", "user", "bob", "with", "password", "'secret'">>
QBad == <<"SELEC", "1">>
QSemi == <<";">>
QSel == <<"select", "...">>
QMany == <<"select", "$1..$21">>
QTwenty == <<"select", "$1..$20">>

QueryTexts == {QSpace, QDiscard, QCreateUser, QBad, QSemi, QSel}
ParseTexts == {QEmpty, QBad, QSel, QMany}

\* Engine column types of a result and the Go type the driver delivers
\* their values in.
EngineTypes == {"BIGINT", "UTINYINT"}
GoTypeOf(et) == IF et = "BIGINT" THEN "int64" ELSE "uint8"
Nil == [gotype |-> "nil"]

(***************************************************************************)
(* The engine (external): what Prepare answers for a text, and the         *)
(* possible outcomes of running a statement.                               *)
(***************************************************************************)
\* conn.Prepare(sql): "ok", "nostmt" (error "No statement to prepare") or "err".
EnginePrepare(sql) ==
  IF sql = QSemi THEN "nostmt"
  ELSE IF Len(sql) > 0 /\ sql[1] = "select" THEN "ok"
  ELSE "err"

\* stmt.NumInput()
NumInput(sql) ==
  IF \E i \in 1..Len(sql) : sql[i] = "$1..$21" THEN maxInputArgsUsePrepared + 1
  ELSE IF \E i \in 1..Len(sql) : sql[i] = "$1..$20" THEN maxInputArgsUsePrepared
  ELSE IF \E i \in 1..Len(sql) : sql[i] = "$1" THEN 1
  ELSE 0

RECURSIVE SeqsUpTo(_, _)
SeqsUpTo(S, n) ==
  IF n = 0 THEN {<< >>}
  ELSE LET shorter == SeqsUpTo(S, n - 1)
       IN shorter \cup {Append(q, x) : q \in {r \in shorter : Len(r) = n - 1}, x \in S}

\* An outcome of QueryContext and of the row iteration that follows:
\* qerr, QueryContext fails; rows, the rows delivered, each a NULL or a
\* value of the column's type; iterErr, rows.Next fails after them instead
\* of reporting EOF; inferErr, the DESCRIBE side query fails.
Results ==
  {[qerr |-> TRUE, etype |-> "BIGINT", rows |-> << >>, iterErr |-> FALSE, inferErr |-> FALSE]}
  \cup
  {r \in [qerr : {FALSE}, etype : EngineTypes, rows : SeqsUpTo({"null", "val"}, MaxRows),
          iterErr : BOOLEAN, inferErr : BOOLEAN] :
      r.inferErr => (r.rows = << >> /\ ~r.iterErr)}

RowValue(r, i) == IF r.rows[i] = "null" THEN Nil ELSE [gotype |-> GoTypeOf(r.etype)]


(***************************************************************************)
(* pg_types.go and the type tables: value and type projection.             *)
(***************************************************************************)
\* pgTypes: name -> OID ("int4" is registered with 21).
pgOidFromType(name) ==
  CASE name = "bool" -> 16
    [] name = "bytea" -> 17
    [] name = "char" -> 18
    [] name = "int8" -> 20
    [] name = "int4" -> 21
    [] name = "float4" -> 700
    [] name = "float8" -> 701
    [] name = "text" -> 25
    [] name = "numeric" -> 1700
    [] name = "timestamp" -> 1114
    [] OTHER -> 0

\* duck2pgTypeMap; "panic" stands for logrus.Panicf on an unmapped type.
duck2pgType(s) ==
  CASE s = "BOOLEAN" -> "bool"
    [] s = "VARCHAR" -> "text"
    [] s = "INTEGER" -> "int4"
    [] s = "BIGINT" -> "int8"
    [] s = "DOUBLE" -> "float8"
    [] s = "TIMESTAMP" -> "timestamp"
    [] s = "DECIMAL" -> "numeric"
    [] s = "DATE" -> "date"
    [] s = "VARCHAR[]" -> "text"
    [] OTHER -> "panic"

\* toPgValue(v): the OID of the rendered value, or an error for a Go type
\* outside the type switch; a nil value renders as text with a nil body.
toPgValue(v) ==
  CASE v.gotype = "bool" -> [err |-> FALSE, oid |-> 16, isnil |-> FALSE]
    [] v.gotype = "int8" -> [err |-> FALSE, oid |-> 18, isnil |-> FALSE]
    [] v.gotype = "int16" -> [err |-> FALSE, oid |-> 21, isnil |-> FALSE]
    [] v.gotype = "int32" -> [err |-> FALSE, oid |-> 21, isnil |-> FALSE]
    [] v.gotype = "int64" -> [err |-> FALSE, oid |-> 20, isnil |-> FALSE]
    [] v.gotype = "float32" -> [err |-> FALSE, oid |-> 701, isnil |-> FALSE]
    [] v.gotype = "float64" -> [err |-> FALSE, oid |-> 701, isnil |-> FALSE]
    [] v.gotype = "string" -> [err |-> FALSE, oid |-> 25, isnil |-> FALSE]
    [] v.gotype = "nil" -> [err |-> FALSE, oid |-> 25, isnil |-> TRUE]
    [] OTHER -> [err |-> TRUE, oid |-> 0, isnil |-> FALSE]

\* What a handler hands back to the worker: the frames written, whether
\* SendErrorResponse ran (it sets inError), whether the goroutine panicked.
Reply(fs) == [frames |-> fs, err |-> FALSE, panic |-> FALSE]
Panic(fs) == [frames |-> fs, err |-> FALSE, panic |-> TRUE]

\* SendErrorResponse(errStr) after the frames fs: sets inError and writes
\* the ErrorResponse frame; its result is the write's, nil on success.
SendErrorResponse(fs, errStr) ==
  [frames |-> Append(fs, ErrorFrame(errStr)), err |-> TRUE, panic |-> FALSE]

\* SendRowData(values): one DataRow, the length -1 for a NULL, else the
\* rendered value; fails without writing on a value toPgValue rejects.
DataRowFrame(v) ==
  NewMessage(DataRow, IF v = Nil \/ toPgValue(v).isnil THEN <<"-1">> ELSE <<v.gotype>>)

\* SendRowDescription(columnNames, firstRowValues): OID from the first
\* row's value.
RowDescriptionOfRow(v) == NewMessage(RowDescription, <<toPgValue(v).oid>>)

\* SendRowDescriptionWithColumnNameAndTypes(columns): OID from the engine
\* type name; cols is the list of engine types.
RowDescriptionOfTypes(cols) ==
  NewMessage(RowDescription, [i \in 1..Len(cols) |-> pgOidFromType(duck2pgType(cols[i]))])

\* The loop of RunStmt over the rows from index i on, rowCount rows sent.
RECURSIVE StreamRows(_, _, _, _)
StreamRows(r, i, rowCount, fs) ==
  IF i > Len(r.rows)
  THEN IF r.iterErr
       THEN SendErrorResponse(fs, EngineError("next"))
       ELSE Reply(Append(fs, CommandCompleteFrame(RowTag(rowCount))))
  ELSE IF RowValue(r, i) # Nil /\ toPgValue(RowValue(r, i)).err
       THEN SendErrorResponse(fs, <<"unsupported type">>)
       ELSE StreamRows(r, i + 1, rowCount + 1, Append(fs, DataRowFrame(RowValue(r, i))))

\* RunStmt(ctx, stmt, values, sendRowDesc, query) with engine outcome r;
\* hasStmt is stmt != nil.
RunStmt(hasStmt, sendRowDesc, r) ==
  IF ~hasStmt THEN Reply(<<NewMessage(EmptyQueryResponse, << >>)>>)
  ELSE IF r.qerr THEN SendErrorResponse(<< >>, EngineError("query"))
  ELSE IF sendRowDesc
  THEN IF r.rows = << >>
       THEN IF r.iterErr THEN SendErrorResponse(<< >>, EngineError("next"))
            ELSE IF r.inferErr THEN SendErrorResponse(<< >>, EngineError("describe"))
            ELSE IF duck2pgType(r.etype) = "panic" THEN Panic(<< >>)
            ELSE Reply(<<RowDescriptionOfTypes(<<r.etype>>), CommandCompleteFrame(RowTag(0))>>)
       ELSE IF toPgValue(RowValue(r, 1)).err THEN Panic(<< >>)
            ELSE StreamRows(r, 2, 1, <<RowDescriptionOfRow(RowValue(r, 1)), DataRowFrame(RowValue(r, 1))>>)
  ELSE StreamRows(r, 1, 0, << >>)


(***************************************************************************)
(* SCRAM-SHA-256 (pg_auth.go).  The hash functions are symbolic terms:     *)
(* two terms are equal only if they are built alike.                       *)
(***************************************************************************)
ClientKeyOf(pw) == <<"ClientKey", pw>>
Sha256(x) == <<"H", x>>
computeHMAC(key, msg) == <<"HMAC", key, msg>>

\* A row of duckserver.users as CreateUser writes it:
\* SCRAM-SHA-256$<iter>:<salt>$<stored key>:<server key>
ScramHash(pw) ==
  [kind |-> "scram", iter |-> 4096, salt |-> "salt",
   storedKey |-> Sha256(ClientKeyOf(pw)), serverKey |-> <<"ServerKey", pw>>]
NoCred == [kind |-> "none"]
Malformed == [kind |-> "malformed"]

\* authMessage of ScramSha256Auth: "n=,r=" + clientNonce + "," +
\* serverFirstResp + ",c=biws,r=" + clientAndServerNonce.
AuthMessage(cnonce, cred) ==
  <<"n=", cnonce, <<"r=", cnonce, "srv", "s=", cred.salt, "i=", cred.iter>>, "c=biws", cnonce, "srv">>

\* The proof a client holding password pw computes, cut to n bytes:
\* ClientKey XOR HMAC(StoredKey, authMessage).
ProofOf(pw, n, cnonce) ==
  [len |-> n, x |-> ClientKeyOf(pw),
   y |-> computeHMAC(Sha256(ClientKeyOf(pw)), AuthMessage(cnonce, ScramHash(pw)))]
NoProof == [len |-> 0, x |-> << >>, y |-> << >>]

\* clientKey[i] = clientProof[i] ^ clientSignature[i]
Xor(proof, sig) == IF proof.y = sig THEN proof.x ELSE <<"garbage", proof.x, sig>>

\* SASL attribute lists are sequences of items <<key, value>>; an item
\* without '=' is a one-element tuple.
\* parseSaslData(data): the map of the items that have a '='.
parseSaslData(data) ==
  LET idx(k) == {i \in 1..Len(data) : Len(data[i]) = 2 /\ data[i][1] = k}
      keys == {data[i][1] : i \in {j \in 1..Len(data) : Len(data[j]) = 2}}
  IN [k \in keys |-> data[CHOOSE i \in idx(k) : \A j \in idx(k) : j <= i][2]]

\* readClientNonce(data)
readClientNonce(data) ==
  LET m == parseSaslData(data)
  IN IF "r" \in DOMAIN m THEN [err |-> FALSE, v |-> m["r"]] ELSE [err |-> TRUE, v |-> ""]

\* The client's first and final SASL frames, both with tag 'p'.
GS2 == <<"n">>
SaslInitials ==
  { [t |-> "p", kind |-> "garbage"],
    [t |-> "p", kind |-> "initial", mech |-> "PLAIN", data |-> <<GS2, <<"">>, <<"n", "">>, <<"r", "cn">>>>],
    [t |-> "p", kind |-> "initial", mech |-> "SCRAM-SHA-256", data |-> << >>],
    [t |-> "p", kind |-> "initial", mech |-> "SCRAM-SHA-256", data |-> <<GS2, <<"">>, <<"n", "">>>>],
    [t |-> "p", kind |-> "initial", mech |-> "SCRAM-SHA-256",
     data |-> <<GS2, <<"">>, <<"n", "">>, <<"r", "cn">>>>] }

Proofs ==
  {NoProof} \cup {ProofOf(pw, n, "cn") : pw \in Passwords, n \in {HmacLen - 1, HmacLen}}
SaslFinals ==
  { [t |-> "p", kind |-> "garbage"],
    [t |-> "p", kind |-> "response", data |-> <<<<"c", "biws">>, <<"r", "cnsrv">>>>] }
  \cup { [t |-> "p", kind |-> "response", data |-> <<<<"c", "biws">>, <<"r", "cnsrv">>, <<"p", pr>>>>] :
          pr \in Proofs }

\* ParseSASLInitialResponseMessage / ParseSASLResponseMessage: an error for
\* a frame that is not a well-formed password message.
ParseSASLInitialResponseMessage(m) == [err |-> m.kind # "initial"]
ParseSASLResponseMessage(m) == [err |-> m.kind # "response"]

\* base64.StdEncoding.DecodeString(clientFinalData["p"]), errors ignored:
\* the bytes of the attribute, none when it is absent.
ClientProof(m) == IF "p" \in DOMAIN m THEN m["p"] ELSE NoProof


(***************************************************************************)
(* State.                                                                  *)
(***************************************************************************)
VARIABLES
  enableAuth,        \* PgServer.enableAuth
  users,             \* table duckserver.users: user -> stored credential
  backends,          \* PgServer.backends: the cancel keys registered
  panicked,          \* a goroutine panicked: the process is gone
  hstate,            \* engine statement handles made by Parse: unused/open/closed
  hcols,             \* stmtDesc.columns of the statement holding the handle
  pc,                \* where each connection's worker is
  user,              \* the argument of Auth while authentication runs
  cred,              \* the credential and nonce ScramSha256Auth holds
  authLog,           \* frames written and reads done by ReadStartUpMessage and Auth
  authOk,            \* AuthenticationOk was written
  verified,          \* the client proof was verified
  needReadyMessage,  \* Run's local needReadyMessage
  inError,           \* PgConn.inError
  stmts,             \* PgConn.stmts
  portal,            \* PgConn.portal
  cancel,            \* PgConn.cancel is not nil
  ctxDone,           \* the context of the statement in flight is cancelled
  cur,               \* the statement in flight
  req,               \* the client frame the last step consumed
  res,               \* the engine outcome of the last statement run
  out,               \* the frames the last step wrote
  errBy,             \* what raised inError: "none", "auth" or "ext"
  epi,               \* tags of the frames written since an extended-query
                     \* operation raised inError, its ErrorResponse first
  wire,              \* a Wire at the level of bytes: its reader, lastMsg and
                     \* the bytes of the last frame written
  copy,              \* PgConn.CopyIn in flight: the sink, the csv reader and
                     \* the frames the client has still to send
  http,              \* the HTTP request being served and its response
  exec,              \* the engine calls of the Execute that has just returned
  bind               \* bindValues: its arguments and, once it ran, its result

srvVars == <<enableAuth, users, backends, panicked, hstate, hcols>>
authVars == <<user, cred, authLog, authOk, verified>>
loopVars == <<needReadyMessage, inError, stmts, portal, cancel, ctxDone, cur>>
ghostVars == <<req, res, out, errBy, epi>>
pgVars == <<srvVars, pc, authVars, loopVars, ghostVars>>
sideVars == <<wire, copy, http, exec, bind>>
vars == <<pgVars, sideVars>>

\* A step of the server other than the return of Execute: it leaves the
\* codec, the COPY and the HTTP state alone, and no Execute has just returned.
NoExecute == UNCHANGED <<wire, copy, http, bind>> /\ exec' = [ran |-> "none", args |-> "none", fresh |-> "none"]

\* A Message: buf is nil or holds the body.
NoBuf == [nil |-> TRUE, data |-> << >>]
Buf(d) == [nil |-> FALSE, data |-> d]
NoMsg == [set |-> FALSE, Length |-> 0, Typ |-> 0, buf |-> NoBuf]

\* A byte slice as copyReader.buf holds it: n bytes from offset off of
\* Wire.buf (shared) or of an array of its own; n = 0 is the empty or nil slice.
NoSlice == [shared |-> FALSE, own |-> << >>, off |-> 0, n |-> 0]

\* The byte-level Wire when the codec is not looked at.  buf is the start of
\* the array Wire.buf, r the slice copyReader.buf, p the bytes copyReader.Read
\* has copied into its callers' buffers, err the error it returned.
NoWire == [sent |-> << >>, rd |-> << >>, lastMsg |-> NoMsg, nread |-> 0, skipped |-> 0,
           prevRead |-> FALSE, op |-> "none", written |-> << >>, payload |-> NoBuf,
           buf |-> << >>, r |-> NoSlice, p |-> << >>, err |-> "none"]

\* No COPY in flight, no HTTP request being served.
NoCopy == [on |-> FALSE, types |-> << >>, cs |-> [buf |-> << >>, err |-> "none", fpr |-> 0],
           v |-> << >>, rows |-> << >>, n |-> 0, flushes |-> 0, fail |-> "none",
           data |-> << >>, done |-> 0, late |-> 0, st |-> "none", what |-> << >>,
           last |-> "none"]
NoHttp == [on |-> FALSE, method |-> "", url |-> << >>, body |-> << >>,
           h |-> "none", text |-> << >>, src |-> << >>,
           status |-> 0, resp |-> << >>, queried |-> FALSE, sql |-> << >>,
           format |-> << >>, columns |-> << >>, rows |-> << >>, appendErr |-> FALSE,
           ctxAt |-> 0]

\* No Execute has called the engine: ran, the handle that was run ("stored",
\* "fresh" or "none"); args, what it was run with ("values", "nil" or
\* "none"); fresh, the handle Execute prepared itself ("none" when it
\* prepared nothing, "failed", "open" or "closed").
NoExec == [ran |-> "none", args |-> "none", fresh |-> "none"]

\* bindValues has not run.
NoBind == [sql |-> << >>, args |-> << >>, done |-> FALSE, panic |-> FALSE, out |-> << >>]

Handles == 1..MaxHandles
NoFrame == [t |-> "none"]
NoRes == [qerr |-> FALSE, etype |-> "none", rows |-> << >>, iterErr |-> FALSE, inferErr |-> FALSE]
NoCur == [op |-> "none"]
ReadMark == [t |-> "<read>"]

\* The state after PgServer.Start has opened the engine: no connection yet.
\* The credentials table persists in the database file: alice has a
\* well-formed entry, mal a malformed one, bob none.
InitServer ==
  /\ enableAuth \in BOOLEAN
  /\ users = [u \in Users |-> CASE u = "alice" -> ScramHash("secret")
                                [] u = "mal" -> Malformed
                                [] OTHER -> NoCred]
  /\ backends = {}
  /\ panicked = FALSE
  /\ hstate = [h \in Handles |-> "unused"]
  /\ hcols = [h \in Handles |-> "nil"]
  /\ pc = [c \in Conns |-> "free"]
  /\ user = [c \in Conns |-> ""]
  /\ cred = [c \in Conns |-> NoCred]
  /\ authLog = [c \in Conns |-> << >>]
  /\ authOk = [c \in Conns |-> FALSE]
  /\ verified = [c \in Conns |-> FALSE]
  /\ needReadyMessage = [c \in Conns |-> FALSE]
  /\ inError = [c \in Conns |-> FALSE]
  /\ stmts = [c \in Conns |-> << >>]
  /\ portal = [c \in Conns |-> << >>]
  /\ cancel = [c \in Conns |-> FALSE]
  /\ ctxDone = [c \in Conns |-> FALSE]
  /\ cur = [c \in Conns |-> NoCur]
  /\ req = [c \in Conns |-> NoFrame]
  /\ res = [c \in Conns |-> NoRes]
  /\ out = [c \in Conns |-> << >>]
  /\ errBy = [c \in Conns |-> "none"]
  /\ epi = [c \in Conns |-> << >>]

Init ==
  /\ InitServer /\ wire = NoWire /\ copy = NoCopy /\ http = NoHttp
  /\ exec = NoExec
  /\ bind = NoBind

\* PgConn.Close, deferred by the worker: closes the handles of the
\* statements in the map, the socket and the engine connection, and
\* deletes the cancel key from the table.
CloseConn(c) ==
  /\ hstate' = [h \in Handles |->
                  IF \E n \in DOMAIN stmts[c] : stmts[c][n].stmt = h
                  THEN "closed" ELSE hstate[h]]
  /\ backends' = backends \ {c}
  /\ pc' = [pc EXCEPT ![c] = "closed"]

\* lis.Accept, newPgConn and Run up to the first read: a fresh connection
\* with its key and empty maps.  Nothing is stored in the cancel-key table.
Accept(c) ==
  /\ ~panicked
  /\ NoExecute
  /\ pc[c] = "free"
  /\ pc' = [pc EXCEPT ![c] = "startup"]
  /\ UNCHANGED <<srvVars, authVars, loopVars, ghostVars>>

\* The order in which "for key, value := range parameterStatus" visits the map.
ParameterStatusOrders ==
  {o \in [1..3 -> parameterStatus] : \A i, j \in 1..3 : i # j => o[i] # o[j]}

\* Run without SendBackendKeyData.
GreetingNoKey(c, o) ==
  [i \in 1..3 |-> NewMessage(ParameterStatus, o[i])]
  \o <<ReadyForQueryMessage(TransactionStatusIdle)>>

\* Run after Auth returned nil: BackendKeyData, the ParameterStatus frames,
\* and the first iteration of the loop up to its read, with
\* needReadyMessage = true.
Greeting(c, o) ==
  <<NewMessage(BackendKeyData, c)>>
  \o [i \in 1..3 |-> NewMessage(ParameterStatus, o[i])]
  \o <<ReadyForQueryMessage(TransactionStatusIdle)>>

\* The worker enters the main loop after Auth wrote the frames fs.
\* sentErr: Auth returned through SendErrorResponse (inError is set).
EnterLoop(c, f, fs, sentErr, ok, ver) ==
  /\ \E o \in ParameterStatusOrders : out' = [out EXCEPT ![c] = fs \o Greeting(c, o)]
  /\ pc' = [pc EXCEPT ![c] = "loop"]
  /\ authLog' = [authLog EXCEPT ![c] =
                   IF pc[c] = "startup" THEN fs ELSE authLog[c] \o <<ReadMark>> \o fs]
  /\ authOk' = [authOk EXCEPT ![c] = ok]
  /\ verified' = [verified EXCEPT ![c] = ver]
  /\ user' = [user EXCEPT ![c] = ""]
  /\ cred' = [cred EXCEPT ![c] = NoCred]
  /\ needReadyMessage' = [needReadyMessage EXCEPT ![c] = TRUE]
  /\ inError' = [inError EXCEPT ![c] = sentErr]
  /\ errBy' = [errBy EXCEPT ![c] = IF sentErr THEN "auth" ELSE "none"]
  /\ req' = [req EXCEPT ![c] = f]
  /\ UNCHANGED <<srvVars, stmts, portal, cancel, ctxDone, cur, res, epi>>

\* The worker returns (Auth or a read failed) after writing fs: Close runs.
Abort(c, f, fs) ==
  /\ CloseConn(c)
  /\ out' = [out EXCEPT ![c] = fs]
  /\ req' = [req EXCEPT ![c] = f]
  /\ authLog' = [authLog EXCEPT ![c] =
                   IF pc[c] \in {"saslInit", "saslFinal"}
                   THEN authLog[c] \o <<ReadMark>> \o fs ELSE authLog[c]]
  /\ res' = [res EXCEPT ![c] = NoRes]
  /\ epi' = [epi EXCEPT ![c] = << >>]
  /\ UNCHANGED <<enableAuth, users, panicked, hcols, user, cred, authOk, verified,
                 loopVars, errBy>>


\* The goroutine panics: the process terminates, every worker with it.
Crash(c, f) ==
  /\ panicked' = TRUE
  /\ req' = [req EXCEPT ![c] = f]
  /\ out' = [out EXCEPT ![c] = << >>]
  /\ UNCHANGED <<enableAuth, users, backends, hstate, hcols, pc, authVars, loopVars,
                 errBy, epi>>

AuthFailed(u) == <<"password authentication failed for user ", u>>

(***************************************************************************)
(* Startup: Wire.ReadStartUpMessage and PgConn.Auth.                       *)
(***************************************************************************)
\* First frame is a StartupMessage naming user u.  Auth(u): NoAuth when
\* authentication is disabled, else ScramSha256Auth up to its first read.
StartupMessage(c) ==
  /\ ~panicked
  /\ NoExecute
  /\ pc[c] = "startup"
  /\ \E u \in Users :
       LET f == [t |-> "startup", user |-> u]
       IN IF ~enableAuth
          THEN EnterLoop(c, f, <<AuthOKFrame>>, FALSE, TRUE, FALSE)
          ELSE /\ pc' = [pc EXCEPT ![c] = "saslInit"]
               /\ user' = [user EXCEPT ![c] = u]
               /\ authLog' = [authLog EXCEPT ![c] =
                                <<NewAuthenticationSASLMessage(<<"SCRAM-SHA-256">>)>>]
               /\ out' = [out EXCEPT ![c] =
                            <<NewAuthenticationSASLMessage(<<"SCRAM-SHA-256">>)>>]
               /\ req' = [req EXCEPT ![c] = f]
               /\ UNCHANGED <<srvVars, cred, authOk, verified, loopVars, res, errBy, epi>>

\* First frame is an SSLRequest: the codec answers 'N' and reads the
\* first frame again.
SSLRequest(c) ==
  /\ ~panicked
  /\ NoExecute
  /\ pc[c] = "startup"
  /\ req' = [req EXCEPT ![c] = [t |-> "ssl"]]
  /\ out' = [out EXCEPT ![c] = <<[t |-> "N"]>>]
  /\ UNCHANGED <<srvVars, pc, authVars, loopVars, res, errBy, epi>>

\* First frame carries another version: "invalid version", the worker returns.
StartupInvalid(c) ==
  /\ ~panicked
  /\ NoExecute
  /\ pc[c] = "startup"
  /\ Abort(c, [t |-> "badversion"], << >>)

\* PgServer.CancelRequest(key), called for a CancelRequest first frame,
\* after which the worker returns.
CancelRequest(c) ==
  /\ ~panicked
  /\ NoExecute
  /\ pc[c] = "startup"
  /\ \E key \in Conns :
       /\ ctxDone' = IF key \in backends /\ cancel[key]
                     THEN [ctxDone EXCEPT ![key] = TRUE] ELSE ctxDone
       /\ req' = [req EXCEPT ![c] = [t |-> "cancel", key |-> key]]
  /\ CloseConn(c)
  /\ out' = [out EXCEPT ![c] = << >>]
  /\ UNCHANGED <<enableAuth, users, panicked, hcols, authVars, needReadyMessage,
                 inError, stmts, portal, cancel, cur, res, errBy, epi>>

\* ScramSha256Auth from its first ReadMessage to its second, or to its return.
SASLInitialResponse(c) ==
  /\ ~panicked
  /\ NoExecute
  /\ pc[c] = "saslInit"
  /\ \E m \in SaslInitials :
       IF ParseSASLInitialResponseMessage(m).err
       THEN EnterLoop(c, m, << >>, FALSE, FALSE, FALSE)
       ELSE IF m.mech # "SCRAM-SHA-256" \/ m.data = << >> \/ readClientNonce(m.data).err
       THEN Abort(c, m, << >>)
       ELSE IF users[user[c]].kind # "scram"
       THEN EnterLoop(c, m, SendErrorResponse(<< >>, AuthFailed(user[c])).frames,
                      TRUE, FALSE, FALSE)
       ELSE LET cr == users[user[c]]
                cn == readClientNonce(m.data).v
                cont == NewMessage(Authentication,
                                   <<11, <<"r=", cn, "srv", "s=", cr.salt, "i=", cr.iter>>>>)
            IN /\ pc' = [pc EXCEPT ![c] = "saslFinal"]
               /\ cred' = [cred EXCEPT ![c] = [kind |-> "held", cn |-> cn, c |-> cr]]
               /\ authLog' = [authLog EXCEPT ![c] = authLog[c] \o <<ReadMark, cont>>]
               /\ out' = [out EXCEPT ![c] = <<cont>>]
               /\ req' = [req EXCEPT ![c] = m]
               /\ UNCHANGED <<srvVars, user, authOk, verified, loopVars, res, errBy, epi>>

\* ScramSha256Auth from its second ReadMessage to its return.
SASLResponse(c) ==
  /\ ~panicked
  /\ NoExecute
  /\ pc[c] = "saslFinal"
  /\ \E m \in SaslFinals :
       IF ParseSASLResponseMessage(m).err
       THEN EnterLoop(c, m, << >>, FALSE, FALSE, FALSE)
       ELSE LET cr == cred[c].c
                clientProof == ClientProof(parseSaslData(m.data))
                authMessage == AuthMessage(cred[c].cn, cr)
                clientSignature == computeHMAC(cr.storedKey, authMessage)
                clientKey == Xor(clientProof, clientSignature)
                final == NewMessage(Authentication,
                                    <<11, <<"v=", computeHMAC(cr.serverKey, authMessage)>>>>)
            IN IF clientProof.len < HmacLen
               THEN Crash(c, m) /\ UNCHANGED res
               ELSE IF Sha256(clientKey) # cr.storedKey
               THEN EnterLoop(c, m, SendErrorResponse(<< >>, AuthFailed(user[c])).frames,
                              TRUE, FALSE, FALSE)
               ELSE EnterLoop(c, m, <<final, AuthOKFrame>>, FALSE, TRUE, TRUE)

\* A read of a client frame fails (the peer is gone): the worker returns.
ReadError(c) ==
  /\ ~panicked
  /\ NoExecute
  /\ pc[c] \in {"startup", "saslInit", "saslFinal", "loop"}
  /\ Abort(c, [t |-> "EOF"], << >>)


(***************************************************************************)
(* The main loop of Run (pg_conn.go).  A step is one iteration: the read   *)
(* of a frame, its handler, and the top of the next iteration, where       *)
(* ReadyForQuery is written if needReadyMessage.                           *)
(***************************************************************************)
\* Top of the loop: "if needReadyMessage { write ReadyForQuery 'I' }".
LoopTop(fs, nr) == IF nr THEN Append(fs, ReadyForQueryMessage(TransactionStatusIdle)) ELSE fs

\* The loop without the in-error test: no frame is ever dropped.
DropFrameNever(c) == FALSE

\* "if c.inError { continue }" in the Parse, Describe, Bind and Execute cases.
DropFrame(c) == inError[c]

\* The end of an iteration that handled frame f with reply rep: nr is
\* needReadyMessage, clearErr that the case ends with c.inError = false.
Step(c, f, rep, nr, clearErr) ==
  LET ie == IF clearErr THEN FALSE ELSE (inError[c] \/ rep.err)
      by == IF ~ie THEN "none" ELSE IF inError[c] THEN errBy[c] ELSE "ext"
      w == LoopTop(rep.frames, nr)
  IN /\ needReadyMessage' = [needReadyMessage EXCEPT ![c] = nr]
     /\ inError' = [inError EXCEPT ![c] = ie]
     /\ errBy' = [errBy EXCEPT ![c] = by]
     /\ epi' = [epi EXCEPT ![c] =
                  IF errBy[c] = "ext" THEN epi[c] \o FrameTypes(w)
                  ELSE IF by = "ext" THEN <<rep.frames[Len(rep.frames)].t>>
                  ELSE << >>]
     /\ out' = [out EXCEPT ![c] = w]
     /\ req' = [req EXCEPT ![c] = f]

\* A Parse, Describe, Bind or Execute frame dropped by "continue":
\* nothing is handled, the loop goes to its top with needReadyMessage nr.
Dropped(c, f, nr) ==
  /\ Step(c, f, Reply(<< >>), nr, FALSE)
  /\ res' = [res EXCEPT ![c] = NoRes]
  /\ UNCHANGED <<srvVars, pc, authVars, stmts, portal, cancel, ctxDone, cur>>

\* strings.HasPrefix(s, prefix) on token sequences.
HasPrefix(s, prefix) == Len(prefix) <= Len(s) /\ SubSeq(s, 1, Len(prefix)) = prefix
ShowLiteral == <<"show", "transaction_read_only">>
SelectZero == <<"select", "0">>

\* The rewrite "if strings.HasPrefix("show transaction_read_only", q) { q = "select 0" }".
RewriteShow(q) == IF HasPrefix(ShowLiteral, q) THEN SelectZero ELSE q

\* createUserRegexp, testDiscardAllRegexp and strings.TrimSpace(q) == "".
MatchCreateUser(q) ==
  Len(q) = 6 /\ q[1] = "create" /\ q[2] = "user" /\ q[4] = "with" /\ q[5] = "password"
MatchDiscardAll(q) == q = QDiscard
TrimSpaceEmpty(q) == \A i \in 1..Len(q) : q[i] = " "

\* The handles DiscardAll and Close close: those of the entries of the map.
CloseStmts(c) ==
  [h \in Handles |->
     IF \E n \in DOMAIN stmts[c] : stmts[c][n].stmt = h THEN "closed" ELSE hstate[h]]

\* DiscardAll that forgets "c.portal = make(map[string]portal)".
DiscardAllKeepsPortals(c) ==
  [portal |-> portal[c], stmts |-> << >>, hs |-> CloseStmts(c),
   rep |-> Reply(<<CommandCompleteFrame(<<"DISCARD ALL">>)>>)]

\* DiscardAll: empties the portal map, closes the handles of the entries
\* of the statement map, empties it, and sends CommandComplete.
DiscardAll(c) ==
  [portal |-> << >>, stmts |-> << >>, hs |-> CloseStmts(c),
   rep |-> Reply(<<CommandCompleteFrame(<<"DISCARD ALL">>)>>)]

\* SimpleQuery(query) up to the engine: CREATE USER, the empty
\* query and DISCARD ALL are answered at once; any other text installs the
\* cancellation handle and goes to the engine.
SimpleQuery(c, q) ==
  LET f == [t |-> "Q", query |-> q]
  IN IF enableAuth /\ MatchCreateUser(q)
     THEN /\ IF users[q[3]].kind # "none"
             THEN /\ Step(c, f, SendErrorResponse(<< >>, EngineError("constraint")), TRUE, TRUE)
                  /\ users' = users
             ELSE /\ Step(c, f, Reply(<<CommandCompleteFrame(<<"CREATE USER">>)>>), TRUE, TRUE)
                  /\ users' = [users EXCEPT ![q[3]] = ScramHash("secret")]
          /\ res' = [res EXCEPT ![c] = NoRes]
          /\ UNCHANGED <<enableAuth, backends, panicked, hstate, hcols, pc, authVars,
                         stmts, portal, cancel, ctxDone, cur>>
     ELSE IF TrimSpaceEmpty(q)
     THEN /\ Step(c, f, Reply(<<NewMessage(EmptyQueryResponse, << >>)>>), TRUE, TRUE)
          /\ res' = [res EXCEPT ![c] = NoRes]
          /\ UNCHANGED <<srvVars, pc, authVars, stmts, portal, cancel, ctxDone,
                         cur>>
     ELSE IF MatchDiscardAll(q)
     THEN /\ Step(c, f, DiscardAll(c).rep, TRUE, TRUE)
          /\ portal' = [portal EXCEPT ![c] = DiscardAll(c).portal]
          /\ stmts' = [stmts EXCEPT ![c] = DiscardAll(c).stmts]
          /\ hstate' = DiscardAll(c).hs
          /\ res' = [res EXCEPT ![c] = NoRes]
          /\ UNCHANGED <<enableAuth, users, backends, panicked, hcols, pc, authVars,
                         cancel, ctxDone, cur>>
     ELSE /\ pc' = [pc EXCEPT ![c] = "running"]
          /\ cancel' = [cancel EXCEPT ![c] = TRUE]
          /\ ctxDone' = [ctxDone EXCEPT ![c] = FALSE]
          /\ cur' = [cur EXCEPT ![c] = [op |-> "Query", query |-> RewriteShow(q)]]
          /\ req' = [req EXCEPT ![c] = f]
          /\ out' = [out EXCEPT ![c] = << >>]
          /\ res' = [res EXCEPT ![c] = NoRes]
          /\ epi' = [epi EXCEPT ![c] = IF errBy[c] = "ext" THEN epi[c] ELSE << >>]
          /\ UNCHANGED <<srvVars, authVars, needReadyMessage, inError, stmts, portal, errBy>>

\* Case Query of Run: a Query frame with one of the texts QueryTexts.
QueryFrame(c) ==
  /\ ~panicked
  /\ NoExecute
  /\ pc[c] = "loop"
  /\ \E q \in QueryTexts : SimpleQuery(c, q)

\* Case Query of Run with the texts around the literal of the rewrite: a
\* proper prefix of it, the literal, the literal followed by more text,
\* and a text that has nothing of it.
ShowTexts == {<<"show">>, ShowLiteral, ShowLiteral \o <<";">>, QSel}
ShowQueryFrame(c) ==
  /\ ~panicked
  /\ NoExecute
  /\ pc[c] = "loop"
  /\ \E q \in ShowTexts : SimpleQuery(c, q)

\* SimpleQuery from c.conn.Prepare to its return, then the rest of case
\* Query: Prepare, RunStmt with the row description, the deferred
\* stmt.Close, cancel() and c.cancel = nil, and inError = false.
QueryDone(c) ==
  /\ ~panicked
  /\ NoExecute
  /\ pc[c] = "running"
  /\ cur[c].op = "Query"
  /\ LET prep == EnginePrepare(cur[c].query)
     IN \E r \in IF prep = "ok" THEN Results ELSE {NoRes} :
          LET rep == IF prep = "nostmt" THEN Reply(<<NewMessage(EmptyQueryResponse, << >>)>>)
                     ELSE IF prep = "err" THEN SendErrorResponse(<< >>, EngineError("prepare"))
                     ELSE RunStmt(TRUE, TRUE, r)
          IN IF rep.panic
             THEN /\ Crash(c, req[c])
                  /\ res' = [res EXCEPT ![c] = r]
             ELSE /\ Step(c, req[c], rep, TRUE, TRUE)
                  /\ pc' = [pc EXCEPT ![c] = "loop"]
                  /\ cancel' = [cancel EXCEPT ![c] = FALSE]
                  /\ cur' = [cur EXCEPT ![c] = NoCur]
                  /\ res' = [res EXCEPT ![c] = r]
                  /\ UNCHANGED <<srvVars, authVars, stmts, portal, ctxDone>>


(***************************************************************************)
(* Extended query: Prepare, Bind, DescribePrepared, Execute.               *)
(***************************************************************************)
FreshHandle(hs) == CHOOSE h \in Handles : hs[h] = "unused" /\ \A g \in 1..(h - 1) : hs[g] # "unused"

\* Prepare(name, sql) reaches a successful c.conn.Prepare, which makes a
\* new engine handle.
NeedsHandle(st, name, sql) ==
  /\ sql # QEmpty
  /\ ~(name # "" /\ name \in DOMAIN st)
  /\ EnginePrepare(RewriteShow(sql)) = "ok"

\* Prepare with the test "if name != \"\"" dropped: the unnamed statement
\* cannot be parsed again either.
PrepareChecksUnnamed(st, hs, name, sql) ==
  IF sql = QEmpty
  THEN [rep |-> Reply(<<NewMessage(ParseComplete, << >>)>>),
        st |-> (name :> [query |-> sql, stmt |-> 0, numInput |-> 0]) @@ st, hs |-> hs]
  ELSE LET q == RewriteShow(sql)
       IN IF name \in DOMAIN st
          THEN [rep |-> SendErrorResponse(<< >>, <<"prepared statement ", name, " already exists">>),
                st |-> st, hs |-> hs]
          ELSE IF EnginePrepare(q) # "ok"
          THEN [rep |-> SendErrorResponse(<< >>, EngineError("prepare")), st |-> st, hs |-> hs]
          ELSE LET h == FreshHandle(hs)
               IN [rep |-> Reply(<<NewMessage(ParseComplete, << >>)>>),
                   st |-> (name :> [query |-> q, stmt |-> h, numInput |-> NumInput(q)]) @@ st,
                   hs |-> [hs EXCEPT ![h] = "open"]]

\* Prepare that closes the engine handle of the entry it replaces.
PrepareClosesReplaced(st, hs, name, sql) ==
  LET old == IF name \in DOMAIN st THEN st[name].stmt ELSE 0
      closed == IF old # 0 THEN [hs EXCEPT ![old] = "closed"] ELSE hs
  IN IF sql = QEmpty
     THEN [rep |-> Reply(<<NewMessage(ParseComplete, << >>)>>),
           st |-> (name :> [query |-> sql, stmt |-> 0, numInput |-> 0]) @@ st, hs |-> closed]
     ELSE LET q == RewriteShow(sql)
          IN IF name # "" /\ name \in DOMAIN st
             THEN [rep |-> SendErrorResponse(<< >>, <<"prepared statement ", name, " already exists">>),
                   st |-> st, hs |-> hs]
             ELSE IF EnginePrepare(q) # "ok"
             THEN [rep |-> SendErrorResponse(<< >>, EngineError("prepare")), st |-> st, hs |-> hs]
             ELSE LET h == FreshHandle(hs)
                  IN [rep |-> Reply(<<NewMessage(ParseComplete, << >>)>>),
                      st |-> (name :> [query |-> q, stmt |-> h, numInput |-> NumInput(q)]) @@ st,
                      hs |-> [closed EXCEPT ![h] = "open"]]

\* Prepare(name, sql) on the statement map st and the handles hs: the
\* reply and the two after it.
Prepare(st, hs, name, sql) ==
  IF sql = QEmpty
  THEN [rep |-> Reply(<<NewMessage(ParseComplete, << >>)>>),
        st |-> (name :> [query |-> sql, stmt |-> 0, numInput |-> 0]) @@ st, hs |-> hs]
  ELSE LET q == RewriteShow(sql)
       IN IF name # "" /\ name \in DOMAIN st
          THEN [rep |-> SendErrorResponse(<< >>, <<"prepared statement ", name, " already exists">>),
                st |-> st, hs |-> hs]
          ELSE IF EnginePrepare(q) # "ok"
          THEN [rep |-> SendErrorResponse(<< >>, EngineError("prepare")), st |-> st, hs |-> hs]
          ELSE LET h == FreshHandle(hs)
               IN [rep |-> Reply(<<NewMessage(ParseComplete, << >>)>>),
                   st |-> (name :> [query |-> q, stmt |-> h, numInput |-> NumInput(q)]) @@ st,
                   hs |-> [hs EXCEPT ![h] = "open"]]

\* Bind without the "ok" test of the map lookup: an unknown name binds a
\* portal to a nil statement.
BindUnchecked(st, po, name, portalName, args) ==
  [rep |-> Reply(<<NewMessage(BindComplete, << >>)>>),
   po |-> (portalName :> [stmt |-> IF name \in DOMAIN st THEN st[name]
                                   ELSE [query |-> QEmpty, stmt |-> 0, numInput |-> 0],
                          values |-> args]) @@ po]

\* Bind(name, portalName, args) on the maps st and po.
Bind(st, po, name, portalName, args) ==
  IF name \notin DOMAIN st
  THEN [rep |-> SendErrorResponse(<< >>, <<"prepared statement ", name, " not found">>), po |-> po]
  ELSE [rep |-> Reply(<<NewMessage(BindComplete, << >>)>>),
        po |-> (portalName :> [stmt |-> st[name], values |-> args]) @@ po]

\* SendParameterDescription(numInput): no frame for zero parameters.
SendParameterDescription(numInput) ==
  IF numInput = 0 THEN << >>
  ELSE <<NewMessage(ParameterDescription, <<numInput>>)>>

\* DescribePrepared(typ, name) reaches inferStmtOutputNamesAndTypes: the
\* statement is found, holds a handle and has no cached columns.
Infers(st, po, hc, typ, name) ==
  /\ typ \in {"S", "P"}
  /\ IF typ = "S" THEN name \in DOMAIN st ELSE name \in DOMAIN po
  /\ LET stmt == IF typ = "S" THEN st[name] ELSE po[name].stmt
     IN stmt.stmt # 0 /\ hc[stmt.stmt] = "nil"

\* DescribePrepared(typ, name) on the maps st and po and the cached
\* columns hc; inf is the engine's answer to the DESCRIBE side query,
\* "err" or the engine type of the output column.
DescribePrepared(st, po, hc, typ, name, inf) ==
  LET found == IF typ = "S" THEN name \in DOMAIN st ELSE name \in DOMAIN po
      stmt == IF typ = "S" THEN st[name] ELSE po[name].stmt
  IN IF typ # "S" /\ typ # "P"
     THEN [rep |-> SendErrorResponse(<< >>, <<"unsupported describe type: ", typ>>), hc |-> hc]
     ELSE IF ~found
     THEN [rep |-> SendErrorResponse(<< >>, <<"prepared statement ", name, " not found">>), hc |-> hc]
     ELSE IF stmt.stmt = 0
     THEN [rep |-> Reply(<<NewMessage(NoData, << >>)>>), hc |-> hc]
     ELSE LET pd == SendParameterDescription(stmt.numInput)
              cols == IF hc[stmt.stmt] # "nil" THEN <<hc[stmt.stmt]>>
                      ELSE IF inf = "err" THEN << >> ELSE <<inf>>
              hc2 == IF hc[stmt.stmt] = "nil" /\ inf # "err"
                     THEN [hc EXCEPT ![stmt.stmt] = inf] ELSE hc
          IN IF \E i \in 1..Len(cols) : duck2pgType(cols[i]) = "panic"
             THEN [rep |-> Panic(pd), hc |-> hc2]
             ELSE [rep |-> Reply(Append(pd, RowDescriptionOfTypes(cols))), hc |-> hc2]

\* Case Parse on a frame with one of the given texts: needReadyMessage =
\* false, then the in-error test.
ParseOf(c, texts) ==
  /\ ~panicked
  /\ NoExecute
  /\ pc[c] = "loop"
  /\ \E name \in StmtNames, sql \in texts :
       LET f == [t |-> "P", name |-> name, query |-> sql]
       IN IF DropFrame(c)
          THEN Dropped(c, f, FALSE)
          ELSE /\ NeedsHandle(stmts[c], name, sql) => \E h \in Handles : hstate[h] = "unused"
               /\ LET p == Prepare(stmts[c], hstate, name, sql)
                  IN /\ Step(c, f, p.rep, FALSE, FALSE)
                     /\ stmts' = [stmts EXCEPT ![c] = p.st]
                     /\ hstate' = p.hs
               /\ res' = [res EXCEPT ![c] = NoRes]
               /\ UNCHANGED <<enableAuth, users, backends, panicked, hcols, pc, authVars,
                              portal, cancel, ctxDone, cur>>

\* Case Parse with the texts ParseTexts.
ParseFrame(c) == ParseOf(c, ParseTexts)

\* Case Parse with statements on both sides of maxInputArgsUsePrepared: one
\* without parameters, one with exactly that many, one with one more.
ExecuteTexts == {QSel, QTwenty, QMany}
ParseFrameAroundLimit(c) == ParseOf(c, ExecuteTexts)

\* Case Bind: the in-error test, then needReadyMessage = false.
BindFrame(c) ==
  /\ ~panicked
  /\ NoExecute
  /\ pc[c] = "loop"
  /\ \E name \in StmtNames, pn \in PortalNames :
       LET f == [t |-> "B", stmt |-> name, portal |-> pn]
       IN IF DropFrame(c)
          THEN Dropped(c, f, needReadyMessage[c])
          ELSE /\ LET b == Bind(stmts[c], portal[c], name, pn, << >>)
                  IN /\ Step(c, f, b.rep, FALSE, FALSE)
                     /\ portal' = [portal EXCEPT ![c] = b.po]
               /\ res' = [res EXCEPT ![c] = NoRes]
               /\ UNCHANGED <<srvVars, pc, authVars, stmts, cancel, ctxDone, cur>>

\* Case Describe: the in-error test, then needReadyMessage = false.
DescribeFrame(c) ==
  /\ ~panicked
  /\ NoExecute
  /\ pc[c] = "loop"
  /\ \E typ \in {"S", "P", "x"}, name \in StmtNames \cup PortalNames :
       LET f == [t |-> "D", typ |-> typ, name |-> name]
       IN IF DropFrame(c)
          THEN Dropped(c, f, needReadyMessage[c])
          ELSE \E inf \in IF Infers(stmts[c], portal[c], hcols, typ, name)
                            THEN {"err"} \cup EngineTypes ELSE {"err"} :
                 LET d == DescribePrepared(stmts[c], portal[c], hcols, typ, name, inf)
                 IN IF d.rep.panic
                    THEN /\ Crash(c, f)
                         /\ UNCHANGED res
                    ELSE /\ Step(c, f, d.rep, FALSE, FALSE)
                         /\ hcols' = d.hc
                         /\ res' = [res EXCEPT ![c] = NoRes]
                         /\ UNCHANGED <<enableAuth, users, backends, panicked, hstate, pc,
                                        authVars, stmts, portal, cancel, ctxDone, cur>>

\* Case Execute up to the engine: the in-error test, needReadyMessage =
\* false, the portal lookup of Execute, and the cancellation handle.
ExecuteFrame(c) ==
  /\ ~panicked
  /\ NoExecute
  /\ pc[c] = "loop"
  /\ \E pn \in PortalNames :
       LET f == [t |-> "E", portal |-> pn]
       IN IF DropFrame(c)
          THEN Dropped(c, f, needReadyMessage[c])
          ELSE IF pn \notin DOMAIN portal[c]
          THEN /\ Step(c, f, SendErrorResponse(<< >>, <<"portal ", pn, " not found">>), FALSE, FALSE)
               /\ res' = [res EXCEPT ![c] = NoRes]
               /\ UNCHANGED <<srvVars, pc, authVars, stmts, portal, cancel, ctxDone, cur>>
          ELSE /\ pc' = [pc EXCEPT ![c] = "running"]
               /\ cancel' = [cancel EXCEPT ![c] = TRUE]
               /\ ctxDone' = [ctxDone EXCEPT ![c] = FALSE]
               /\ cur' = [cur EXCEPT ![c] = [op |-> "Execute", p |-> portal[c][pn]]]
               /\ needReadyMessage' = [needReadyMessage EXCEPT ![c] = FALSE]
               /\ req' = [req EXCEPT ![c] = f]
               /\ out' = [out EXCEPT ![c] = << >>]
               /\ res' = [res EXCEPT ![c] = NoRes]
               /\ epi' = [epi EXCEPT ![c] = << >>]
               /\ UNCHANGED <<srvVars, authVars, inError, stmts, portal, errBy>>

\* The engine calls of Execute on the portal p: above
\* maxInputArgsUsePrepared parameters c.conn.Prepare on the substituted text
\* (fresh: its answer), RunStmt on that statement with nil values and the
\* deferred stmt.Close(); else RunStmt on the stored statement with the
\* portal's values, which runs nothing when the statement is nil. Without
\* the deferred Close first.
ExecuteCallsNoClose(p, fresh) ==
  IF p.stmt.numInput > maxInputArgsUsePrepared
  THEN IF fresh = "err" THEN [ran |-> "none", args |-> "none", fresh |-> "failed"]
       ELSE [ran |-> "fresh", args |-> "nil", fresh |-> "open"]
  ELSE IF p.stmt.stmt = 0 THEN NoExec
  ELSE [ran |-> "stored", args |-> "values", fresh |-> "none"]
ExecuteCalls(p, fresh) ==
  IF p.stmt.numInput > maxInputArgsUsePrepared
  THEN IF fresh = "err" THEN [ran |-> "none", args |-> "none", fresh |-> "failed"]
       ELSE [ran |-> "fresh", args |-> "nil", fresh |-> "closed"]
  ELSE IF p.stmt.stmt = 0 THEN NoExec
  ELSE [ran |-> "stored", args |-> "values", fresh |-> "none"]

\* Execute from the engine call to its return: the stored handle with
\* the bound values, or, above maxInputArgsUsePrepared parameters, a
\* statement prepared afresh from the substituted text (fresh: the
\* engine's answer to that Prepare) and closed on return.
ExecuteDone(c) ==
  /\ ~panicked
  /\ UNCHANGED <<wire, copy, http, bind>>
  /\ pc[c] = "running"
  /\ cur[c].op = "Execute"
  /\ LET p == cur[c].p
         many == p.stmt.numInput > maxInputArgsUsePrepared
     IN \E fresh \in IF many THEN {"ok", "err"} ELSE {"ok"} :
        \E r \in IF fresh = "err" \/ (~many /\ p.stmt.stmt = 0) THEN {NoRes}
                 ELSE {x \in Results : (~many /\ hstate[p.stmt.stmt] = "closed") => x.qerr} :
          LET rep == IF fresh = "err" THEN SendErrorResponse(<< >>, EngineError("prepare"))
                     ELSE RunStmt(many \/ p.stmt.stmt # 0, FALSE, r)
          IN /\ Step(c, req[c], rep, FALSE, FALSE)
             /\ pc' = [pc EXCEPT ![c] = "loop"]
             /\ cancel' = [cancel EXCEPT ![c] = FALSE]
             /\ cur' = [cur EXCEPT ![c] = NoCur]
             /\ res' = [res EXCEPT ![c] = r]
             /\ exec' = ExecuteCalls(p, fresh)
             /\ UNCHANGED <<srvVars, authVars, stmts, portal, ctxDone>>

\* Case Sync without "c.inError = false".
SyncFrameKeepsError(c) ==
  /\ ~panicked
  /\ NoExecute
  /\ pc[c] = "loop"
  /\ Step(c, [t |-> "S"], Reply(<< >>), TRUE, FALSE)
  /\ res' = [res EXCEPT ![c] = NoRes]
  /\ UNCHANGED <<srvVars, pc, authVars, stmts, portal, cancel, ctxDone, cur>>

\* Case Sync.
SyncFrame(c) ==
  /\ ~panicked
  /\ NoExecute
  /\ pc[c] = "loop"
  /\ Step(c, [t |-> "S"], Reply(<< >>), TRUE, TRUE)
  /\ res' = [res EXCEPT ![c] = NoRes]
  /\ UNCHANGED <<srvVars, pc, authVars, stmts, portal, cancel, ctxDone, cur>>

\* Case Terminate: the worker returns and Close runs.
TerminateFrame(c) ==
  /\ ~panicked
  /\ NoExecute
  /\ pc[c] = "loop"
  /\ Abort(c, [t |-> "X"], << >>)

\* The default case without "needReadyMessage = false".
OtherFrameStays(c) ==
  /\ ~panicked
  /\ NoExecute
  /\ pc[c] = "loop"
  /\ Step(c, [t |-> "H"], Reply(<< >>), needReadyMessage[c], FALSE)
  /\ res' = [res EXCEPT ![c] = NoRes]
  /\ UNCHANGED <<srvVars, pc, authVars, stmts, portal, cancel, ctxDone, cur>>

\* The default case (Flush, Close, ...): needReadyMessage = false.
OtherFrame(c) ==
  /\ ~panicked
  /\ NoExecute
  /\ pc[c] = "loop"
  /\ Step(c, [t |-> "H"], Reply(<< >>), FALSE, FALSE)
  /\ res' = [res EXCEPT ![c] = NoRes]
  /\ UNCHANGED <<srvVars, pc, authVars, stmts, portal, cancel, ctxDone, cur>>

(***************************************************************************)
(* COPY ... FROM STDIN: PgConn.CopyIn, copyReader, and the csv.Reader and  *)
(* bufio.Reader of the standard library between them.                      *)
(***************************************************************************)
\* The tables a COPY names and their column types (QueryTableColumns);
\* "none" is no table: NewAppenderFromConn fails.
CopyTables == {"t1", "t2", "tdate", "none"}
TableColumns(tbl) ==
  CASE tbl = "t1" -> <<"VARCHAR">>
    [] tbl = "t2" -> <<"BIGINT", "VARCHAR">>
    [] tbl = "tdate" -> <<"DATE">>
    [] OTHER -> << >>

\* getDuckDBConverter(typ) is not nil; the converter of typ accepts field in.
getDuckDBConverter(typ) == typ \in {"INTEGER", "VARCHAR", "BIGINT", "BOOLEAN", "DOUBLE", "BIT"}
Converts(typ, in) == typ = "VARCHAR" \/ in # << >>

\* The characters of the CSV data: a digit, the comma, the line feed.
CsvTokens == {"1", ",", "\n"}

\* The frames a client sends while the copy runs.
CopyInFrames ==
  [t : {CopyData}, body : SeqsUpTo(CsvTokens, MaxBody)]
  \cup [t : {CopyDone, CopyFail, "Q"}, body : {<< >>}]

\* The position of the first x in s, 0 if there is none.
IndexOf(s, x) ==
  IF \E i \in 1..Len(s) : s[i] = x
  THEN CHOOSE i \in 1..Len(s) : s[i] = x /\ \A j \in 1..(i - 1) : s[j] # x
  ELSE 0

\* The fields of a line without quotes: the text between its commas.
RECURSIVE Fields(_)
Fields(line) ==
  LET i == IndexOf(line, ",")
  IN IF i = 0 THEN <<line>>
     ELSE <<SubSeq(line, 1, i - 1)>> \o Fields(SubSeq(line, i + 1, Len(line)))

\* The end of csv.Reader.readRecord for a line read with error errRead:
\* the fields, then the test of FieldsPerRecord, which the first record sets.
Record(line, errRead, cs) ==
  LET dst == Fields(line)
      err == IF errRead # "none" THEN errRead
             ELSE IF cs.fpr > 0 /\ Len(dst) # cs.fpr THEN "wrong number of fields"
             ELSE "none"
  IN [st |-> IF err = "none" THEN "row" ELSE "err", row |-> dst, what |-> err,
      cs |-> IF cs.fpr = 0 THEN [cs EXCEPT !.fpr = Len(dst)] ELSE cs]

\* csv.Reader.Read on the bufio.Reader state cs (buf: the bytes buffered,
\* err: the error fill kept): ReadSlice returns a line up to the line feed,
\* or with a pending error what is buffered and that error, which readErr
\* clears, or it has to fill ("need"); readLine drops io.EOF after a line
\* that is not empty; readRecord skips empty lines.
RECURSIVE CsvRead(_)
CsvRead(cs) ==
  LET i == IndexOf(cs.buf, "\n")
      rest == [cs EXCEPT !.buf = SubSeq(cs.buf, i + 1, Len(cs.buf))]
      got == [cs EXCEPT !.buf = << >>, !.err = "none"]
  IN IF i = 1 THEN CsvRead(rest)
     ELSE IF i > 1 THEN Record(SubSeq(cs.buf, 1, i - 1), "none", rest)
     ELSE IF cs.err = "none" THEN [st |-> "need", row |-> << >>, what |-> "none", cs |-> cs]
     ELSE IF cs.buf = << >> /\ cs.err = "io.EOF"
     THEN [st |-> "eof", row |-> << >>, what |-> "none", cs |-> got]
     ELSE Record(cs.buf, IF cs.buf # << >> /\ cs.err = "io.EOF" THEN "none" ELSE cs.err, got)

\* copyReader.Read that takes a CopyFail for the end of the data.
copyReaderReadFailEnds(cs, f) ==
  CASE f.t = CopyData -> [cs EXCEPT !.buf = cs.buf \o f.body]
    [] f.t = CopyDone -> [cs EXCEPT !.err = "io.EOF"]
    [] f.t = CopyFail -> [cs EXCEPT !.err = "io.EOF"]
    [] OTHER -> [cs EXCEPT !.err = "unexpected message type"]

\* copyReader.Read called by bufio's fill with the frame f that ReadMessage
\* returns: the body of a CopyData is buffered, any other frame is an error.
copyReaderRead(cs, f) ==
  CASE f.t = CopyData -> [cs EXCEPT !.buf = cs.buf \o f.body]
    [] f.t = CopyDone -> [cs EXCEPT !.err = "io.EOF"]
    [] f.t = CopyFail -> [cs EXCEPT !.err = "copy fail"]
    [] OTHER -> [cs EXCEPT !.err = "unexpected message type"]

\* The first field of row that stops the conversion loop "v[i], err =
\* convertors[i](val)": it has no converter (index out of range) or its
\* converter fails; 0 if every field converts.
FirstBad(types, row) ==
  LET bad(i) == i > Len(types) \/ ~Converts(types[i], row[i])
  IN IF \E i \in 1..Len(row) : bad(i)
     THEN CHOOSE i \in 1..Len(row) : bad(i) /\ \A j \in 1..(i - 1) : ~bad(j)
     ELSE 0

\* The loop of CopyIn from cr.Read() on, until the reader needs a frame
\* ("need"), the loop breaks and the sink is flushed ("done", or "err"
\* when Flush fails), an error is answered ("err") or the worker panics.
\* The slice v is the same for every row.
RECURSIVE CopyLoop(_)
CopyLoop(k) ==
  LET r == CsvRead(k.cs)
      m == FirstBad(k.types, r.row)
      v1 == [i \in 1..Len(k.types) |-> IF i <= Len(r.row) THEN r.row[i] ELSE k.v[i]]
      stop(st, what) == [k EXCEPT !.cs = r.cs, !.st = st, !.what = <<what>>]
  IN CASE r.st = "need" -> stop("need", "none")
       [] r.st = "err" -> stop("err", r.what)
       [] r.st = "eof" ->
            IF k.fail = "flush" THEN stop("err", "flush")
            ELSE [stop("done", "none") EXCEPT !.flushes = k.flushes + 1]
       [] OTHER ->
            IF m > Len(k.types) THEN stop("panic", "index out of range")
            ELSE IF m > 0 THEN stop("err", "convert")
            ELSE IF k.fail = "append" THEN stop("err", "append")
            ELSE CopyLoop([k EXCEPT !.cs = r.cs, !.v = v1, !.rows = Append(k.rows, v1),
                                    !.n = k.n + 1])

\* The body of CopyInResponse: format 0, the column count, a zero format
\* code for each column.
CopyInResponseFrame(types) ==
  NewMessage(CopyInResponse, <<0, Len(types)>> \o [i \in 1..Len(types) |-> 0])

\* Case Query with a COPY ... FROM STDIN text: SimpleQuery calls CopyIn,
\* which opens the appender, reads the column types, writes
\* CopyInResponse, installs the cancellation handle and reads.  fail is
\* what the sink will refuse.
CopyQueryFrame(c) ==
  /\ ~panicked
  /\ UNCHANGED <<wire, http, exec, bind>>
  /\ pc[c] = "loop"
  /\ \E tbl \in CopyTables, fail \in {"none", "append", "flush"} :
       LET f == [t |-> "Q", query |-> <<"copy", tbl, "from", "stdin">>]
           types == TableColumns(tbl)
       IN IF tbl = "none" \/ \E i \in 1..Len(types) : ~getDuckDBConverter(types[i])
          THEN /\ fail = "none"
               /\ Step(c, f, SendErrorResponse(<< >>, IF tbl = "none" THEN EngineError("appender")
                                                     ELSE <<"unsupported column type">>),
                       TRUE, TRUE)
               /\ res' = [res EXCEPT ![c] = NoRes]
               /\ copy' = NoCopy
               /\ UNCHANGED <<srvVars, pc, authVars, stmts, portal, cancel, ctxDone, cur>>
          ELSE /\ pc' = [pc EXCEPT ![c] = "copying"]
               /\ cancel' = [cancel EXCEPT ![c] = TRUE]
               /\ ctxDone' = [ctxDone EXCEPT ![c] = FALSE]
               /\ copy' = [NoCopy EXCEPT !.on = TRUE, !.types = types, !.fail = fail,
                                         !.v = [i \in 1..Len(types) |-> <<"nil">>],
                                         !.st = "need"]
               /\ req' = [req EXCEPT ![c] = f]
               /\ out' = [out EXCEPT ![c] = <<CopyInResponseFrame(types)>>]
               /\ res' = [res EXCEPT ![c] = NoRes]
               /\ epi' = [epi EXCEPT ![c] = IF errBy[c] = "ext" THEN epi[c] ELSE << >>]
               /\ UNCHANGED <<srvVars, authVars, needReadyMessage, inError, stmts, portal,
                              cur, errBy>>

\* CopyIn goes on when the frame f it waits for arrives: the loop runs
\* until it needs the next frame or CopyIn returns; then the deferred
\* cancel and appender.Close run and case Query ends.  data, done and late
\* record what was received: the bytes of the CopyData bodies, the CopyDone
\* frames, and the frames read after a CopyDone; last is the tag of f.
CopyFrame(c) ==
  /\ ~panicked
  /\ UNCHANGED <<wire, http, exec, bind>>
  /\ pc[c] = "copying"
  /\ \E f \in CopyInFrames :
       LET k == CopyLoop([copy EXCEPT !.cs = copyReaderRead(copy.cs, f),
                                      !.data = copy.data \o f.body,
                                      !.last = f.t,
                                      !.done = copy.done + (IF f.t = CopyDone THEN 1 ELSE 0),
                                      !.late = copy.late + (IF copy.done > 0 THEN 1 ELSE 0)])
           rep == IF k.st = "done" THEN Reply(<<CommandCompleteFrame(<<"COPY", k.n>>)>>)
                  ELSE SendErrorResponse(<< >>, k.what)
       IN /\ Len(k.data) <= MaxCopyData
          /\ k.done + k.late <= MaxFrames
          /\ IF k.st = "need"
             THEN /\ copy' = k
                  /\ UNCHANGED <<pgVars>>
             ELSE IF k.st = "panic"
             THEN /\ Crash(c, req[c])
                  /\ copy' = k
                  /\ res' = res
             ELSE /\ Step(c, req[c], rep, TRUE, TRUE)
                  /\ pc' = [pc EXCEPT ![c] = "loop"]
                  /\ cancel' = [cancel EXCEPT ![c] = FALSE]
                  /\ copy' = [k EXCEPT !.on = FALSE]
                  /\ UNCHANGED <<srvVars, authVars, stmts, portal, ctxDone, cur, res>>

(***************************************************************************)
(* The HTTP front-end (ch_server.go): texts are sequences of tokens, a     *)
(* word, a number, a blank " ", a line feed "\n", ";" or ",".              *)
(***************************************************************************)
Ws == {" ", "\n"}
Selects == {"SELECT", "select"}
Inserts == {"INSERT", "insert"}
Formats == {"FORMAT", "format"}
Limits == {"LIMIT", "limit"}
Digits == {"0", "5", "10"}

\* s without its leading, or its trailing, tokens of the set S.
RECURSIVE TrimLeft(_, _)
TrimLeft(s, S) == IF s # << >> /\ s[1] \in S THEN TrimLeft(Tail(s), S) ELSE s
RECURSIVE TrimRight(_, _)
TrimRight(s, S) ==
  IF s # << >> /\ s[Len(s)] \in S THEN TrimRight(SubSeq(s, 1, Len(s) - 1), S) ELSE s

\* The longest prefix of s made of tokens of S (a greedy \d+ or \S+).
RECURSIVE Run(_, _)
Run(s, S) == IF s # << >> /\ s[1] \in S THEN <<s[1]>> \o Run(Tail(s), S) ELSE << >>

NoLineFeed(s) == \A i \in 1..Len(s) : s[i] # "\n"

\* strings.ReplaceAll(s, "\n", " ")
ReplaceLineFeeds(s) == [i \in 1..Len(s) |-> IF s[i] = "\n" THEN " " ELSE s[i]]

\* testSelectQueryRegexp (?i)^\s*SELECT.*$ : "." matches no line feed and
\* "$" only the end of the text.
testSelectQueryRegexp(s) ==
  LET r == TrimLeft(s, Ws)
  IN r # << >> /\ r[1] \in Selects /\ NoLineFeed(Tail(r))

\* testInsertRegexp (?i)^\s*INSERT$
testInsertRegexp(s) ==
  LET r == TrimLeft(s, Ws) IN Len(r) = 1 /\ r[1] \in Inserts

\* (?i)^\s*INSERT\s+INTO at the head of s, and the text after it.
AfterInsertInto(s) ==
  LET r == TrimLeft(s, Ws)
      a == IF r = << >> THEN << >> ELSE TrimLeft(Tail(r), Ws)
  IN IF /\ r # << >> /\ r[1] \in Inserts
        /\ Len(r) >= 2 /\ r[2] \in Ws
        /\ a # << >> /\ a[1] \in {"INTO", "into"}
     THEN [ok |-> TRUE, rest |-> Tail(a)]
     ELSE [ok |-> FALSE, rest |-> << >>]

\* testInsertValuesQueryRegexp (?i)^\s*INSERT\s+INTO.*VALUES.*[\s;]*$
testInsertValuesQueryRegexp(s) ==
  LET m == AfterInsertInto(s)
  IN /\ m.ok
     /\ \E j \in 1..Len(m.rest) :
          /\ m.rest[j] \in {"VALUES", "values"}
          /\ NoLineFeed(SubSeq(m.rest, 1, j - 1))
          /\ NoLineFeed(TrimRight(SubSeq(m.rest, j + 1, Len(m.rest)), Ws \cup {";"}))

\* insertFormatRegexp (?i)^\s*INSERT\s+INTO(.*?)format\s+(\S+)[\s;]*$ at
\* the keyword in position j of the text after INTO: the blanks after the
\* keyword, the greedy run of \S, and nothing but blanks and ";" after it.
FormatAt(rest, j) ==
  LET after == SubSeq(rest, j + 1, Len(rest))
      name == Run(TrimLeft(after, Ws), {t \in {rest[i] : i \in 1..Len(rest)} : t \notin Ws})
      trail == SubSeq(TrimLeft(after, Ws), Len(name) + 1, Len(TrimLeft(after, Ws)))
  IN [ok |-> /\ rest[j] \in Formats
             /\ NoLineFeed(SubSeq(rest, 1, j - 1))
             /\ after # << >> /\ after[1] \in Ws
             /\ name # << >>
             /\ \A i \in 1..Len(trail) : trail[i] \in Ws \cup {";"},
      tableExpr |-> SubSeq(rest, 1, j - 1), format |-> name]

\* The groups of insertFormatRegexp: the lazy (.*?) stops at the first
\* keyword that lets the rest match.
insertFormatRegexp(s) ==
  LET m == AfterInsertInto(s)
      J == {j \in 1..Len(m.rest) : FormatAt(m.rest, j).ok}
  IN IF m.ok /\ J # {}
     THEN FormatAt(m.rest, CHOOSE j \in J : \A i \in J : j <= i)
     ELSE [ok |-> FALSE, tableExpr |-> << >>, format |-> << >>]

\* testInsertFormatRegexp: the same expression without groups.
testInsertFormatRegexp(s) == insertFormatRegexp(s).ok

\* selectFormatRegexp (?i)^\s*SELECT.* format (\S*?)[\s;]*$ at the keyword
\* in position j: a blank on each side, the lazy run of \S that leaves
\* nothing but blanks and ";".
SelectFormatAt(s, j) ==
  LET after == SubSeq(s, j + 2, Len(s))
      P == {p \in 0..Len(after) :
              /\ \A i \in 1..p : after[i] \notin Ws
              /\ \A i \in (p + 1)..Len(after) : after[i] \in Ws \cup {";"}}
  IN [ok |-> /\ j >= 2 /\ j + 1 <= Len(s)
             /\ s[j] \in Formats /\ s[j - 1] = " " /\ s[j + 1] = " "
             /\ P # {},
      format |-> IF P = {} THEN << >> ELSE SubSeq(after, 1, CHOOSE p \in P : \A q \in P : p <= q),
      clean |-> SubSeq(s, 1, j - 1)]

\* The match of selectFormatRegexp in a SELECT text without line feeds:
\* the greedy ".*" takes the last keyword that lets the rest match.
\* formatCleanRegexp keeps the text up to the blank before that keyword.
selectFormatRegexp(s) ==
  LET lead == Len(s) - Len(TrimLeft(s, Ws))
      J == {j \in (lead + 2)..Len(s) : SelectFormatAt(s, j).ok}
  IN IF testSelectQueryRegexp(s) /\ J # {}
     THEN SelectFormatAt(s, CHOOSE j \in J : \A i \in J : j >= i)
     ELSE [ok |-> FALSE, format |-> << >>, clean |-> s]

\* limitRewriteRegexp (?i)LIMIT\s+(\d+)\s*,\s*(\d+) matched at the head of s.
LimitAt(s) ==
  LET s1 == Tail(s)
      s2 == TrimLeft(s1, Ws)
      a == Run(s2, Digits)
      s3 == TrimLeft(SubSeq(s2, Len(a) + 1, Len(s2)), Ws)
      s4 == IF s3 = << >> THEN << >> ELSE TrimLeft(Tail(s3), Ws)
      b == Run(s4, Digits)
  IN [ok |-> /\ s # << >> /\ s[1] \in Limits
             /\ s1 # << >> /\ s1[1] \in Ws
             /\ a # << >> /\ s3 # << >> /\ s3[1] = "," /\ b # << >>,
      a |-> a, b |-> b, rest |-> SubSeq(s4, Len(b) + 1, Len(s4))]

\* The replacement with the groups exchanged, "LIMIT $1 OFFSET $2".
RECURSIVE LimitRewriteExchanged(_)
LimitRewriteExchanged(s) ==
  IF s = << >> THEN << >>
  ELSE IF LimitAt(s).ok
  THEN <<"LIMIT", " ">> \o LimitAt(s).a \o <<" ", "OFFSET", " ">> \o LimitAt(s).b
       \o LimitRewriteExchanged(LimitAt(s).rest)
  ELSE <<s[1]>> \o LimitRewriteExchanged(Tail(s))

\* limitRewriteRegexp.ReplaceAllString(s, "LIMIT $2 OFFSET $1")
RECURSIVE LimitRewrite(_)
LimitRewrite(s) ==
  IF s = << >> THEN << >>
  ELSE IF LimitAt(s).ok
  THEN <<"LIMIT", " ">> \o LimitAt(s).b \o <<" ", "OFFSET", " ">> \o LimitAt(s).a
       \o LimitRewrite(LimitAt(s).rest)
  ELSE <<s[1]>> \o LimitRewrite(Tail(s))

\* strings.Replace(query, "select table", `select "table"`, 1)
RECURSIVE QuoteTable(_)
QuoteTable(s) ==
  IF Len(s) < 3 THEN s
  ELSE IF SubSeq(s, 1, 3) = <<"select", " ", "table">>
  THEN <<"select", " ", "\"table\"">> \o SubSeq(s, 4, Len(s))
  ELSE <<s[1]>> \o QuoteTable(Tail(s))

\* The registered formats: the keys of chOutputFormats and chInputFormats.
chInputFormats == {"JSONEachRow", "CSV", "CSVWithNames", "TabSeparated", "TabSeparatedWithNames"}
chOutputFormats == chInputFormats \cup {"TabSeparatedWithNamesAndTypes"}
GetClickhouseOutputFormat(format) == Len(format) = 1 /\ format[1] \in chOutputFormats
GetClickhouseInputFormat(format) == Len(format) = 1 /\ format[1] \in chInputFormats

\* What a handler leaves: h the handler, text its query argument, src the
\* body it reads from, status and resp what it wrote (0: no WriteHeader),
\* sql the text the engine was asked to run (queried), rows the values
\* given to AppendRow, appendErr that an AppendRow failed.
Served(h, text) == [NoHttp EXCEPT !.on = TRUE, !.h = h, !.text = text]
Answer(r, status, resp) == [r EXCEPT !.status = status, !.resp = resp]

\* SelectQuery that starts the query before it looks the format up.
SelectQueryStartsFirst(text, q) ==
  LET r == Served("select", text)
      query == LimitRewrite(ReplaceLineFeeds(QuoteTable(TrimRight(TrimLeft(text, Ws), Ws))))
      m == selectFormatRegexp(query)
      format == IF m.ok THEN m.format ELSE <<"TabSeparated">>
      asked == [r EXCEPT !.format = format, !.queried = TRUE, !.sql = m.clean]
  IN IF ~testSelectQueryRegexp(query) THEN Answer(r, 400, <<"Invalid query">>)
     ELSE IF q = "err" THEN Answer(asked, 500, <<"Error executing query">>)
     ELSE IF ~GetClickhouseOutputFormat(format)
     THEN Answer(asked, 400, <<"Unknown format">> \o format)
     ELSE Answer(asked, 200, <<"rows">>)

\* SelectQuery(ctx, query, wr); q is the outcome of conn.QueryContext.
SelectQuery(text, q) ==
  LET r == Served("select", text)
      query == LimitRewrite(ReplaceLineFeeds(QuoteTable(TrimRight(TrimLeft(text, Ws), Ws))))
      m == selectFormatRegexp(query)
      format == IF m.ok THEN m.format ELSE <<"TabSeparated">>
      asked == [r EXCEPT !.format = format, !.queried = TRUE, !.sql = m.clean]
  IN IF ~testSelectQueryRegexp(query) THEN Answer(r, 400, <<"Invalid query">>)
     ELSE IF ~GetClickhouseOutputFormat(format)
     THEN Answer([r EXCEPT !.format = format], 400, <<"Unknown format">> \o format)
     ELSE IF q = "err" THEN Answer(asked, 500, <<"Error executing query">>)
     ELSE Answer(asked, 200, <<"rows">>)

\* ExecuteQuery(ctx, query, wr); q is the outcome of conn.ExecContext.
ExecuteQuery(text, q) ==
  LET asked == [Served("execute", text) EXCEPT !.queried = TRUE, !.sql = text]
  IN IF q = "err" THEN Answer(asked, 500, <<"Error executing query">>)
     ELSE Answer(asked, 200, << >>)

\* The objects of a JSONEachRow body, each one token, and what
\* json.Decoder.Decode makes of them; "{" is not an object.
JsonTokens == {"{a:1,b:2}", "{a:3}", "{b:4}", "{}", "{a:null}", "{c:5}", "{"}
JsonObject(tok) ==
  CASE tok = "{a:1,b:2}" -> [a |-> "1", b |-> "2"]
    [] tok = "{a:3}" -> [a |-> "3"]
    [] tok = "{b:4}" -> [b |-> "4"]
    [] tok = "{a:null}" -> [a |-> "nil"]
    [] tok = "{c:5}" -> [c |-> "5"]
    [] OTHER -> [k \in {} |-> "nil"]

\* JsonLinesFormatReader.Read(value): Decode into the receiver map, which
\* is the same map for every row and keeps the keys the object does not
\* name; then value[i] = receiver[columns[i]], nil for a key not in the map.
JsonLinesRead(receiver, columns, tok) ==
  LET o == JsonObject(tok)
      m == [k \in DOMAIN receiver \cup DOMAIN o |-> IF k \in DOMAIN o THEN o[k] ELSE receiver[k]]
  IN [receiver |-> m,
      value |-> [i \in 1..Len(columns) |-> IF columns[i] \in DOMAIN m THEN m[columns[i]] ELSE "nil"]]

\* parseTablesAndColumns(t): blanks removed, then a name and an optional
\* list of columns in parentheses, which is one token.
ColumnLists == {"(a)", "(b,a)", "(c)"}
parseTablesAndColumns(t) ==
  LET e == SelectSeq(t, LAMBDA x : x \notin Ws)
      name == Run(e, {x \in {e[i] : i \in 1..Len(e)} : x \notin ColumnLists \cup {";", ","}})
      last == SubSeq(e, Len(name) + 1, Len(e))
  IN [ok |-> name # << >> /\ (last = << >> \/ (Len(last) = 1 /\ last[1] \in ColumnLists)),
      table |-> name,
      columns |-> CASE last = <<"(a)">> -> <<"a">>
                    [] last = <<"(b,a)">> -> <<"b", "a">>
                    [] last = <<"(c)">> -> <<"c">>
                    [] OTHER -> << >>]

\* The columns of the one table of the database, main.t.
TableT == <<"a", "b">>

\* What the engine and the client do during an InsertFormat: desc, the
\* outcome of the table description query; appender, of NewAppenderFromConn;
\* ctxAt, the iteration at whose top the request context is already
\* cancelled (0: it never is); cancelAt, the iteration whose test "if done"
\* reads true (0: none): done is written by the watcher goroutine and read
\* by the loop without synchronisation, so the loop may read true at any
\* test from the cancellation on, or at none; bad, the calls of AppendRow
\* that fail; flush, the outcome of Flush.  A call that is not reached has
\* no outcome to choose.
InsertOutcomes ==
  {e \in [desc : {"ok", "err"}, appender : {"ok", "err"}, bad : SUBSET (1..MaxObjects),
          flush : {"ok", "err"}, ctxAt : 0..(MaxObjects + 1), cancelAt : 0..(MaxObjects + 1)] :
     /\ e.desc = "err" => e.appender = "ok"
     /\ (e.desc = "err" \/ e.appender = "err") => (e.cancelAt = 0 /\ e.ctxAt = 0)
     /\ e.cancelAt > 0 => (e.ctxAt \in 1..e.cancelAt /\ e.bad \subseteq 1..(e.cancelAt - 1))
     /\ (e.desc = "err" \/ e.appender = "err" \/ e.cancelAt > 0)
        => e.flush = "ok"
     /\ (e.desc = "err" \/ e.appender = "err") => e.bad = {}}

\* The loop of InsertFormat from iteration i on; the result of AppendRow
\* is assigned to err and not looked at.  ctxAt is kept when the loop got
\* as far as the iteration it names.
RECURSIVE InsertLoop(_, _, _, _, _)
InsertLoop(r0, rd, receiver, i, e) ==
  LET d == TrimLeft(rd, Ws)
      r == [r0 EXCEPT !.ctxAt = IF e.ctxAt \in 1..i THEN e.ctxAt ELSE 0]
      x == JsonLinesRead(receiver, r.columns, d[1])
  IN IF e.cancelAt = i THEN Answer(r, 500, <<"Request cancelled">>)
     ELSE IF d = << >>
     THEN IF e.flush = "err" THEN Answer(r, 500, <<"Error flushing appender">>)
          ELSE Answer(r, 200, << >>)
     ELSE IF d[1] \notin JsonTokens \ {"{"} THEN Answer(r, 500, <<"Error reading values">>)
     ELSE InsertLoop([r EXCEPT !.rows = Append(r.rows, x.value),
                               !.appendErr = r.appendErr \/ i \in e.bad],
                     Tail(d), x.receiver, i + 1, e)

\* InsertFormat(ctx, query, rd, wr) with the format JSONEachRow.
InsertFormat(text, rd, e) ==
  LET r == [Served("insert", text) EXCEPT !.src = rd]
      g == insertFormatRegexp(text)
      t == parseTablesAndColumns(g.tableExpr)
      columns == IF t.columns = << >> THEN TableT ELSE t.columns
      r1 == [r EXCEPT !.format = g.format, !.columns = columns]
  IN IF ~g.ok THEN Answer(r, 400, <<"Invalid query">>)
     ELSE IF ~GetClickhouseInputFormat(g.format)
     THEN Answer(r, 400, <<"Unknown format">> \o g.format)
     ELSE IF ~t.ok THEN Answer(r, 400, <<"Invalid table expression">>)
     ELSE IF t.table # <<"t">> \/ e.desc = "err"
     THEN Answer(r, 500, <<"Error getting table description">>)
     ELSE IF \E i \in 1..Len(columns) : \A j \in 1..Len(TableT) : TableT[j] # columns[i]
     THEN Answer(r, 400, <<"Column not found in table">>)
     ELSE IF e.appender = "err" THEN Answer(r, 500, <<"Error creating appender">>)
     ELSE InsertLoop(r1, rd, [k \in {} |-> "nil"], 1, e)

\* The end of ServeHTTP for a POST, after the body ended in the loop: the
\* handler that is called and its query, or none.
AfterProbe(query) ==
  IF testSelectQueryRegexp(query) THEN [h |-> "select", text |-> query, rd |-> << >>]
  ELSE IF ~testInsertRegexp(query) \/ testInsertValuesQueryRegexp(query)
  THEN [h |-> "execute", text |-> query, rd |-> << >>]
  ELSE [h |-> "none", text |-> query, rd |-> << >>]

\* The loop of ServeHTTP for a POST: query is the probe, rd what is left
\* of the body; ReadString('\n') gives the line up to a line feed, or the
\* rest and an error.  The result is the handler called, its query, and
\* the body left to it.
RECURSIVE Probe(_, _)
Probe(query, rd) ==
  LET i == IndexOf(rd, "\n")
      line == IF i = 0 THEN rd ELSE SubSeq(rd, 1, i)
  IN IF testSelectQueryRegexp(query) THEN [h |-> "select", text |-> query \o rd, rd |-> << >>]
     ELSE IF testInsertFormatRegexp(query) THEN [h |-> "insert", text |-> query, rd |-> rd]
     ELSE IF query # << >>
             /\ (~testInsertRegexp(query) \/ testInsertValuesQueryRegexp(query))
     THEN [h |-> "execute", text |-> query \o rd, rd |-> << >>]
     ELSE IF i = 0 THEN AfterProbe(query \o ReplaceLineFeeds(line))
     ELSE Probe(query \o ReplaceLineFeeds(line), SubSeq(rd, i + 1, Len(rd)))

\* The requests: SELECT texts with and without LIMIT and FORMAT clauses,
\* INSERT ... FORMAT texts followed by a body of objects, and other texts.
Sel == <<"SELECT", " ", "1">>
LimitClauses ==
  {<< >>}
  \cup {<<" ", "LIMIT", " ", b>> : b \in Digits}
  \cup {<<" ", "LIMIT", " ", b, " ", "OFFSET", " ", a>> : a, b \in Digits}
  \cup {<<" ", "LIMIT", " ", a>> \o sp1 \o <<",">> \o sp2 \o <<b>> :
          a, b \in Digits, sp1, sp2 \in {<< >>, <<" ">>}}
FormatClauses ==
  {<< >>} \cup {<<" ", kw, " ", f>> : kw \in Formats,
                                     f \in {"JSONEachRow", "TabSeparatedWithNamesAndTypes", "Foo"}}
SelectTexts == {Sel \o l \o f \o e : l \in LimitClauses, f \in FormatClauses, e \in {<< >>, <<";">>}}
InsertTexts ==
  {<<"INSERT", " ", "INTO", " ">> \o t \o <<" ", "FORMAT", " ", "JSONEachRow", "\n">> :
     t \in {<<"t">>, <<"t", " ", "(a)">>, <<"t", "(b,a)">>}}
BadInsertTexts ==
  {<<"INSERT", " ", "INTO", " ">> \o t \o <<" ", "FORMAT", " ", f, "\n">> :
     t \in {<<"t">>, <<"t", "(c)">>, <<"u">>, <<"t", ";">>}, f \in {"JSONEachRow", "Foo"}}
   \ InsertTexts
RECURSIVE Lines(_)
Lines(objs) == IF objs = << >> THEN << >> ELSE <<Head(objs), "\n">> \o Lines(Tail(objs))
OtherTexts ==
  {<< >>, <<"INSERT">>, <<"INSERT", "\n">>, <<" ", "insert">>, <<"INSERT", " ", "INTO", " ", "t">>,
   <<"INSERT", "\n", "INTO", " ", "t", " ", "FORMAT", " ", "JSONEachRow", "\n", "{a:3}">>,
   <<"INSERT", " ", "INTO", " ", "t", " ", "VALUES", " ", "(1)", ";", "\n">>,
   <<"DROP", " ", "x">>, <<"\n", "SELECT", " ", "1">>,
   Sel \o <<"\n", "FORMAT", " ", "Foo">>, Sel \o <<"\n", "LIMIT", " ", "5", ",", "10", "\n">>}
HttpRequests ==
  [method : {"GET"}, url : SelectTexts \cup {<< >>, <<"DROP", " ", "x">>}, body : {<< >>}]
  \cup [method : {"POST"}, url : {<< >>}, body : SelectTexts \cup OtherTexts]
  \cup [method : {"POST"}, url : {Sel \o <<" ", "FORMAT", " ", "Foo">>, <<"INSERT">>}, body : {<< >>}]
  \cup {[method |-> "POST", url |-> << >>, body |-> t \o Lines(objs)] :
          t \in InsertTexts, objs \in SeqsUpTo(JsonTokens, MaxObjects)}
  \cup {[method |-> "POST", url |-> << >>, body |-> t \o <<"{a:3}">>] : t \in BadInsertTexts}
  \cup {[method |-> "POST", url |-> SubSeq(t, 1, Len(t) - 1), body |-> <<"{b:4}", "\n">>] :
          t \in InsertTexts}

\* ServeHTTP for a GET: the query of the URL, a blank and the body go to
\* SelectQuery.
HttpGet ==
  /\ ~http.on /\ http.method = "GET"
  /\ \E q \in {"ok", "err"} :
       http' = [SelectQuery(http.url \o <<" ">> \o http.body, q)
                  EXCEPT !.method = http.method, !.url = http.url, !.body = http.body]
  /\ UNCHANGED <<pgVars, wire, copy, exec, bind>>

\* ServeHTTP for a POST: the probe starts as the query of the URL, with a
\* line feed if it is not empty.
HttpPost ==
  /\ ~http.on /\ http.method = "POST"
  /\ LET rt == Probe(IF http.url # << >> THEN http.url \o <<"\n">> ELSE << >>, http.body)
         served(r) == http' = [r EXCEPT !.method = http.method, !.url = http.url,
                                        !.body = http.body]
     IN CASE rt.h = "select" -> \E q \in {"ok", "err"} : served(SelectQuery(rt.text, q))
          [] rt.h = "insert" -> \E e \in InsertOutcomes : served(InsertFormat(rt.text, rt.rd, e))
          [] rt.h = "execute" -> \E q \in {"ok", "err"} : served(ExecuteQuery(rt.text, q))
          [] OTHER -> served(Served("none", rt.text))
  /\ UNCHANGED <<pgVars, wire, copy, exec, bind>>

(***************************************************************************)
(* The codec at the level of bytes (message.go, wire.go).                  *)
(***************************************************************************)
\* binary.BigEndian.PutUint32 and the decoding of ReadMessage.
PutUint32(v) == <<(v \div 16777216) % 256, (v \div 65536) % 256, (v \div 256) % 256, v % 256>>
Uint32(b) == b[4] + b[3] * 256 + b[2] * 65536 + b[1] * 16777216

Bytes == {1, 2}
Payloads == {NoBuf} \cup {Buf(d) : d \in SeqsUpTo(Bytes, MaxBody)}
WrittenTags ==
  {Authentication, BackendKeyData, BindComplete, CommandComplete, CopyFail, DataRow,
   EmptyQueryResponse, ErrorResponse, NoData, ParameterDescription, ParameterStatus,
   ParseComplete, RowDescription}

\* NewMessage with Length: int32(len(payload)).
NewMessageNoHeader(typ, payload) ==
  [Typ |-> typ, Length |-> Len(payload.data), buf |-> payload, wire |-> FALSE]

\* NewMessage(typ, payload) as a struct: Length is len(payload) + 4, wire is nil.
NewMessageStruct(typ, payload) ==
  [Typ |-> typ, Length |-> Len(payload.data) + 4, buf |-> payload, wire |-> FALSE]

\* io.CopyN(writer, m.wire, n) of Message.Write for a message without
\* wire: nothing is read for n <= 0 (the limited reader answers EOF before
\* it touches m.wire); for n > 0 the nil Wire is dereferenced.
CopyNFromNil(n) == [bytes |-> << >>, panic |-> n > 0]

\* Message.Write: the 5-byte header, then buf, or for a nil buf Length - 4
\* bytes copied from m.wire.
MessageWrite(m) ==
  LET header == <<m.Typ>> \o PutUint32(m.Length)
  IN IF ~m.buf.nil THEN [bytes |-> header \o m.buf.data, panic |-> FALSE]
     ELSE [bytes |-> header \o CopyNFromNil(m.Length - 4).bytes,
           panic |-> CopyNFromNil(m.Length - 4).panic]

\* ReadyForQueryMessage.Write: six bytes.
ReadyForQueryWrite(status) == <<ReadyForQuery>> \o PutUint32(5) \o <<status>>

\* Wire.WriteMessage(NewMessage(typ, payload)).
WriteMessage ==
  /\ wire.op \in {"start", "Write"}
  /\ \E typ \in WrittenTags, payload \in Payloads :
       LET w == MessageWrite(NewMessageStruct(typ, payload))
       IN /\ ~w.panic
          /\ wire' = [wire EXCEPT !.op = "Write", !.written = w.bytes, !.payload = payload]
  /\ UNCHANGED <<pgVars, copy, http, exec, bind>>

\* Wire.WriteMessage(&ReadyForQueryMessage{Status: status}).
WriteReadyForQuery ==
  /\ wire.op \in {"start", "Write"}
  /\ \E status \in {"I", "T", "E"} :
       wire' = [wire EXCEPT !.op = "Write", !.written = ReadyForQueryWrite(status),
                            !.payload = Buf(<<status>>)]
  /\ UNCHANGED <<pgVars, copy, http, exec, bind>>

\* Wire.WriteAuthOK: the literal bytes 'R', 0, 0, 0, 8, 0, 0, 0, 0.
WriteAuthOK ==
  /\ wire.op \in {"start", "Write"}
  /\ wire' = [wire EXCEPT !.op = "Write", !.written = <<Authentication, 0, 0, 0, 8, 0, 0, 0, 0>>,
                          !.payload = Buf(<<0, 0, 0, 0>>)]
  /\ UNCHANGED <<pgVars, copy, http, exec, bind>>

\* The frames a client sends: a tag, a body, and on the wire the length
\* field len(body) + 4 between them.
ClientTags == {81, 72}   \* 'Q' and 'H' as bytes
ClientFrames == [Typ : ClientTags, body : SeqsUpTo(Bytes, MaxBody)]
ClientEncode(f) == <<f.Typ>> \o PutUint32(Len(f.body) + 4) \o f.body

RECURSIVE ClientStream(_)
ClientStream(fs) == IF fs = << >> THEN << >> ELSE ClientEncode(Head(fs)) \o ClientStream(Tail(fs))

\* The rest of rd after its first n bytes.
Drop(rd, n) == SubSeq(rd, n + 1, Len(rd))

\* Skip without the test "m.buf != nil": the body is discarded again
\* after it was read.
SkipAlways(m, rd) == Drop(rd, m.Length - 4)

\* Message.Skip on the reader rd: nothing when the body was read, else
\* io.CopyN(io.Discard, m.wire, Length - 4).
Skip(m, rd) == IF ~m.buf.nil THEN rd ELSE Drop(rd, m.Length - 4)

\* Wire.ReadMessage: skip what is left of lastMsg, read five bytes, decode
\* tag and length into lastMsg and clear its buf.
ReadMessage ==
  /\ wire.op \in {"reading", "ReadMessage", "Read"}
  /\ LET rd1 == IF wire.lastMsg.set THEN Skip(wire.lastMsg, wire.rd) ELSE wire.rd
         b == SubSeq(rd1, 1, 5)
     IN /\ Len(rd1) >= 5
        /\ wire' = [wire EXCEPT
                      !.rd = Drop(rd1, 5),
                      !.lastMsg = [set |-> TRUE, Length |-> Uint32(SubSeq(b, 2, 5)),
                                   Typ |-> b[1], buf |-> NoBuf],
                      !.nread = wire.nread + 1,
                      !.skipped = Len(wire.rd) - Len(rd1),
                      !.prevRead = wire.lastMsg.set /\ ~wire.lastMsg.buf.nil,
                      !.op = "ReadMessage"]
  /\ UNCHANGED <<pgVars, copy, http, exec, bind>>

\* Message.Read on the message ReadMessage returned: the buffered body if
\* there is one, else Length - 4 bytes read from the wire and kept in buf.
MessageRead ==
  /\ wire.op \in {"ReadMessage", "Read"}
  /\ LET m == wire.lastMsg
     IN IF ~m.buf.nil
        THEN wire' = [wire EXCEPT !.op = "Read"]
        ELSE /\ Len(wire.rd) >= m.Length - 4
             /\ wire' = [wire EXCEPT !.op = "Read",
                                     !.rd = Drop(wire.rd, m.Length - 4),
                                     !.lastMsg.buf = Buf(SubSeq(wire.rd, 1, m.Length - 4))]
  /\ UNCHANGED <<pgVars, copy, http, exec, bind>>

(***************************************************************************)
(* copyReader.Read byte by byte: the slice it keeps of the codec's buffer  *)
(* and the read requests of the bufio.Reader under the CSV parser.         *)
(***************************************************************************)
WireBufferSize == 4096

\* The cells of Wire.buf that the header and the bodies of the bounded
\* frames reach.
WireCells == IF MaxBody > 5 THEN MaxBody ELSE 5

\* The tags of CopyData and CopyDone as bytes, and the frames of a COPY: up
\* to MaxFrames CopyData, then a CopyDone.
CopyDataByte == 100
CopyDoneByte == 99
CopyStreams ==
  {fs \o <<[Typ |-> CopyDoneByte, body |-> << >>]>> :
     fs \in SeqsUpTo([Typ : {CopyDataByte}, body : SeqsUpTo(Bytes, MaxBody)], MaxFrames)}

\* s with the bytes b written from its first cell on.
Overwrite(s, b) == [i \in 1..Len(s) |-> IF i <= Len(b) THEN b[i] ELSE s[i]]

\* The bytes of the slice r while Wire.buf holds wbuf.
SliceBytes(wbuf, r) ==
  SubSeq(IF r.shared THEN wbuf ELSE r.own, r.off + 1, r.off + r.n)

\* "n := copy(p, r.buf)" that drops what did not fit into p.
CopyOutDrops(w, r, np) ==
  LET n == IF np < r.n THEN np ELSE r.n
  IN [w EXCEPT !.p = w.p \o SubSeq(SliceBytes(w.buf, r), 1, n), !.r = NoSlice]

\* "n := copy(p, r.buf); if n < len(r.buf) { r.buf = r.buf[len(p):] } else
\* { r.buf = nil }" with len(p) = np, r.buf = r and the codec state w.
CopyOut(w, r, np) ==
  LET n == IF np < r.n THEN np ELSE r.n
  IN [w EXCEPT !.p = w.p \o SubSeq(SliceBytes(w.buf, r), 1, n),
               !.r = IF n < r.n THEN [r EXCEPT !.off = r.off + np, !.n = r.n - np]
                     ELSE NoSlice]

\* copyReader.Read(p) with len(p) = np: what is left of r.buf, or the next
\* frame: Wire.ReadMessage reads the header into Wire.buf[0:5], Message.Read
\* reads the body into Wire.buf[:Length-4], or into a new array when it is
\* longer than Wire.buf, and r.buf is that slice.
copyReaderReadBytes ==
  /\ wire.op = "copy" /\ wire.err = "none"
  /\ \E np \in 1..MaxRead :
       IF wire.r.n > 0
       THEN wire' = CopyOut(wire, wire.r, np)
       ELSE LET rd1 == IF wire.lastMsg.set THEN Skip(wire.lastMsg, wire.rd) ELSE wire.rd
                hdr == SubSeq(rd1, 1, 5)
                l == Uint32(SubSeq(hdr, 2, 5))
                body == SubSeq(rd1, 6, l + 1)
                shared == l <= WireBufferSize + 4
                m == [set |-> TRUE, Length |-> l, Typ |-> hdr[1], buf |-> NoBuf]
                w1 == [wire EXCEPT !.rd = Drop(rd1, 5), !.lastMsg = m,
                                   !.nread = wire.nread + 1,
                                   !.buf = Overwrite(wire.buf, hdr)]
                w2 == [w1 EXCEPT !.rd = Drop(w1.rd, l - 4), !.lastMsg.buf = Buf(body),
                                 !.buf = IF shared THEN Overwrite(w1.buf, body) ELSE w1.buf]
            IN /\ Len(rd1) >= 5
               /\ CASE hdr[1] = CopyDataByte ->
                         /\ Len(rd1) >= l + 1
                         /\ wire' = CopyOut(w2, [shared |-> shared,
                                                  own |-> IF shared THEN << >> ELSE body,
                                                  off |-> 0, n |-> l - 4], np)
                    [] hdr[1] = CopyDoneByte -> wire' = [w1 EXCEPT !.err = "io.EOF"]
                    [] hdr[1] = 102 -> wire' = [w1 EXCEPT !.err = "copy fail"]
                    [] OTHER -> wire' = [w1 EXCEPT !.err = "unexpected message type"]
  /\ UNCHANGED <<pgVars, copy, http, exec, bind>>

(***************************************************************************)
(* Specifications.                                                         *)
(***************************************************************************)
\* The server: every connection, startup and authentication, the simple
\* query protocol, cancel requests.
Next ==
  \E c \in Conns :
    \/ Accept(c)
    \/ StartupMessage(c)
    \/ SSLRequest(c)
    \/ StartupInvalid(c)
    \/ CancelRequest(c)
    \/ SASLInitialResponse(c)
    \/ SASLResponse(c)
    \/ ReadError(c)
    \/ QueryFrame(c)
    \/ QueryDone(c)
    \/ SyncFrame(c)
    \/ TerminateFrame(c)

Spec == Init /\ [][Next]_vars

\* One connection of a server without authentication: the simple and the
\* extended query protocol.
InitExt == Init /\ ~enableAuth

NextExt ==
  \/ Accept(1)
  \/ StartupMessage(1)
  \/ ReadError(1)
  \/ QueryFrame(1)
  \/ QueryDone(1)
  \/ ParseFrame(1)
  \/ BindFrame(1)
  \/ DescribeFrame(1)
  \/ ExecuteFrame(1)
  \/ ExecuteDone(1)
  \/ SyncFrame(1)
  \/ TerminateFrame(1)
  \/ OtherFrame(1)

SpecExt == InitExt /\ [][NextExt]_vars

\* The extended protocol on statements around maxInputArgsUsePrepared.
NextExecute ==
  \/ Accept(1)
  \/ StartupMessage(1)
  \/ ParseFrameAroundLimit(1)
  \/ BindFrame(1)
  \/ ExecuteFrame(1)
  \/ ExecuteDone(1)
  \/ SyncFrame(1)
  \/ TerminateFrame(1)

SpecExecute == InitExt /\ [][NextExecute]_vars

\* A server without authentication whose connections are sent the
\* queries ShowTexts.
NextShow ==
  \E c \in Conns :
    \/ Accept(c)
    \/ StartupMessage(c)
    \/ ShowQueryFrame(c)
    \/ QueryDone(c)
    \/ TerminateFrame(c)

SpecShow == InitExt /\ [][NextShow]_vars

\* One connection of a server without authentication that is sent COPY
\* ... FROM STDIN statements and the frames of the copy.
NextCopy ==
  \/ Accept(1)
  \/ StartupMessage(1)
  \/ CopyQueryFrame(1)
  \/ CopyFrame(1)
  \/ SyncFrame(1)
  \/ TerminateFrame(1)

SpecCopy == InitExt /\ [][NextCopy]_vars

\* The HTTP front-end serving one request.
InitHttp ==
  /\ InitServer /\ ~enableAuth /\ wire = NoWire /\ copy = NoCopy
  /\ exec = NoExec
  /\ bind = NoBind
  /\ \E r \in HttpRequests :
       http = [NoHttp EXCEPT !.method = r.method, !.url = r.url, !.body = r.body]
NextHttp == HttpGet \/ HttpPost
SpecHttp == InitHttp /\ [][NextHttp]_vars

\* The codec writing frames.
InitWrite ==
  /\ InitServer /\ ~enableAuth /\ copy = NoCopy /\ http = NoHttp
  /\ exec = NoExec
  /\ bind = NoBind
  /\ wire = [NoWire EXCEPT !.op = "start"]
NextWrite == WriteMessage \/ WriteReadyForQuery \/ WriteAuthOK
SpecWrite == InitWrite /\ [][NextWrite]_vars

\* The codec reading the frames a client sent, with or without reading
\* their bodies.
InitRead ==
  /\ InitServer /\ ~enableAuth /\ copy = NoCopy /\ http = NoHttp
  /\ exec = NoExec
  /\ bind = NoBind
  /\ \E fs \in SeqsUpTo(ClientFrames, MaxFrames) :
       wire = [NoWire EXCEPT !.op = "reading", !.sent = fs, !.rd = ClientStream(fs)]
NextRead == ReadMessage \/ MessageRead
SpecRead == InitRead /\ [][NextRead]_vars

\* The reader of a COPY on the frames a client sent.
InitCopyReader ==
  /\ InitServer /\ ~enableAuth /\ copy = NoCopy /\ http = NoHttp
  /\ exec = NoExec
  /\ bind = NoBind
  /\ \E fs \in CopyStreams :
       wire = [NoWire EXCEPT !.op = "copy", !.sent = fs, !.rd = ClientStream(fs),
                             !.buf = [i \in 1..WireCells |-> 0]]
SpecCopyReader == InitCopyReader /\ [][copyReaderReadBytes]_vars


(***************************************************************************)
(* Properties.                                                             *)
(***************************************************************************)
Written(log) == SelectSeq(log, LAMBDA f : f # ReadMark)
Repeat(x, k) == [i \in 1..k |-> x]
RFQ == ReadyForQueryMessage(TransactionStatusIdle)

\* The engine ran the statement and reported no error.
Succeeded(r) == r.etype \in EngineTypes /\ ~r.qerr /\ ~r.iterErr /\ ~r.inferErr

\* The frame f names a statement or portal the maps of c do not hold, or
\* is a Describe with a type byte other than 'S' and 'P'.
UnknownTarget(c, f) ==
  \/ f.t = "B" /\ f.stmt \notin DOMAIN stmts[c]
  \/ f.t = "E" /\ f.portal \notin DOMAIN portal[c]
  \/ f.t = "D" /\ \/ f.typ \notin {"S", "P"}
                  \/ f.typ = "S" /\ f.name \notin DOMAIN stmts[c]
                  \/ f.typ = "P" /\ f.name \notin DOMAIN portal[c]

\* C1: while the in-error flag raised by an extended-query operation is
\* set, a Parse, Bind, Describe or Execute frame writes no frame at all
\* and leaves the statement map and the portal map as they are.
C1_DroppedUntilSync ==
  [][\A c \in Conns :
       (inError[c] /\ errBy[c] = "ext"
        /\ req'[c].t \in {"P", "B", "D", "E"}
        /\ (ParseFrame(c) \/ BindFrame(c) \/ DescribeFrame(c) \/ ExecuteFrame(c)))
       => (out'[c] = << >> /\ stmts'[c] = stmts[c] /\ portal'[c] = portal[c]
           /\ inError'[c])]_vars

\* A frame was dropped after an operation failed, the maps not being empty.
C1_Witness ==
  /\ inError[1] /\ errBy[1] = "ext"
  /\ req[1].t \in {"B", "D", "E"}
  /\ out[1] = << >>
  /\ epi[1] = <<ErrorResponse>>
  /\ stmts[1] # << >> /\ portal[1] # << >>

\* C2: a Sync frame clears the in-error flag whatever it was and whatever
\* needReadyMessage was, and writes exactly one ReadyForQuery 'I' before
\* the next read; the frames written from the ErrorResponse of a failed
\* extended-query operation to the end of the Sync that follows it are
\* exactly ErrorResponse, ReadyForQuery.
C2_SyncClearsError ==
  [][\A c \in Conns :
       (req'[c].t = "S" /\ SyncFrame(c))
       => (/\ ~inError'[c]
           /\ out'[c] = <<RFQ>>
           /\ needReadyMessage'[c]
           /\ pc'[c] = "loop"
           /\ (errBy[c] = "ext" => epi'[c] = <<ErrorResponse, ReadyForQuery>>))]_vars

\* A Sync ended the episode a failed operation opened.
C2_Witness ==
  /\ req[1].t = "S"
  /\ ~inError[1]
  /\ epi[1] = <<ErrorResponse, ReadyForQuery>>
  /\ out[1] = <<RFQ>>

\* C3: with the in-error flag clear, a Bind of an unknown statement, an
\* Execute of an unknown portal and a Describe of an unknown statement or
\* portal or with another type byte each write exactly one ErrorResponse,
\* set the flag, leave both maps as they are, and leave the worker in its
\* loop, where it serves the next Sync.
C3_UnknownNames ==
  [][\A c \in Conns :
       (~inError[c] /\ UnknownTarget(c, req'[c])
        /\ (BindFrame(c) \/ DescribeFrame(c) \/ ExecuteFrame(c)))
       => (/\ FrameTypes(out'[c]) = <<ErrorResponse>>
           /\ inError'[c]
           /\ stmts'[c] = stmts[c] /\ portal'[c] = portal[c]
           /\ pc'[c] = "loop" /\ ~panicked')]_vars

\* A Bind named a statement the non-empty map does not hold.
C3_Witness ==
  /\ req[1].t = "B"
  /\ stmts[1] # << >>
  /\ req[1].stmt \notin DOMAIN stmts[1]
  /\ out[1] = <<ErrorFrame(<<"prepared statement ", req[1].stmt, " not found">>)>>
  /\ inError[1] /\ pc[1] = "loop"

\* C4: a simple Query the engine prepares and runs without error, with k
\* rows, is answered by RowDescription, k DataRow, CommandComplete
\* "(k row)" and ReadyForQuery, in this order.
C4_SimpleQueryFrames ==
  \A c \in Conns :
    (req[c].t = "Q" /\ Succeeded(res[c]))
    => LET k == Len(res[c].rows)
       IN /\ FrameTypes(out[c]) =
               <<RowDescription>> \o Repeat(DataRow, k) \o <<CommandComplete, ReadyForQuery>>
          /\ out[c][k + 2] = CommandCompleteFrame(RowTag(k))

\* C5: an Execute of an existing portal whose statement holds a handle
\* and runs without error with k rows writes k DataRow and then
\* CommandComplete "(k row)"; one whose statement came from empty SQL
\* writes exactly one EmptyQueryResponse.
C5_ExecuteFrames ==
  \A c \in Conns :
    (req[c].t = "E" /\ pc[c] = "loop" /\ req[c].portal \in DOMAIN portal[c])
    => LET s == portal[c][req[c].portal].stmt
           k == Len(res[c].rows)
       IN /\ (s.stmt # 0 /\ Succeeded(res[c]))
             => (/\ FrameTypes(out[c]) = Repeat(DataRow, k) \o <<CommandComplete>>
                 /\ out[c][k + 1] = CommandCompleteFrame(RowTag(k)))
          /\ (s.stmt = 0 /\ ~inError[c])
             => out[c] = <<NewMessage(EmptyQueryResponse, << >>)>>

\* C6: with authentication enabled, a worker is in its loop (BackendKeyData,
\* ParameterStatus and ReadyForQuery written, frames served) only if
\* AuthenticationOk was written after a verified proof.
C6_LoopOnlyAfterVerifiedProof ==
  \A c \in Conns :
    (enableAuth /\ pc[c] \in {"loop", "running"}) => (authOk[c] /\ verified[c])

\* Authentication of c ended with the generic ErrorResponse for user u.
AuthRefused(c, u) ==
  /\ authLog[c] # << >>
  /\ authLog[c][Len(authLog[c])] = ErrorFrame(AuthFailed(u))

\* C7: a refusal of a user absent from the credentials table and a
\* refusal of an existing user with a wrong proof consist of the same
\* sequence of frame types.
C7_RefusalsAlike ==
  \A c1, c2 \in Conns : \A u1, u2 \in Users :
    (AuthRefused(c1, u1) /\ users[u1].kind = "none"
     /\ AuthRefused(c2, u2) /\ users[u2].kind = "scram")
    => FrameTypes(Written(authLog[c1])) = FrameTypes(Written(authLog[c2]))

\* C8: a successful exchange writes the Authentication frames with
\* selectors 10, 11 (r=, s=, i=), 12 (v=) and 0, in this order, with one
\* read after the first and one after the second.
C8_ScramFrames ==
  \A c \in Conns :
    verified[c]
    => LET log == authLog[c]
       IN /\ Len(log) = 6
          /\ FrameTypes(Written(log)) = Repeat(Authentication, 4)
          /\ log[1] = NewAuthenticationSASLMessage(<<"SCRAM-SHA-256">>)
          /\ log[2] = ReadMark
          /\ log[3].body[1] = 11 /\ log[3].body[2][1] = "r="
          /\ log[4] = ReadMark
          /\ log[5].body[1] = 12 /\ log[5].body[2][1] = "v="
          /\ log[6] = AuthOKFrame

\* C9: a SASLResponse whose proof does not verify, the proof being
\* absent or short included, is answered by the generic ErrorResponse,
\* without AuthenticationOk and without the process going down.
C9_BadProofRefused ==
  [][\A c \in Conns :
       (SASLResponse(c) /\ req'[c].kind = "response" /\ ~verified'[c])
       => (/\ ~panicked'
           /\ out'[c] # << >>
           /\ out'[c][1] = ErrorFrame(AuthFailed(user[c]))
           /\ ~authOk'[c])]_vars

\* C10: from accept to close the key of a connection is in the cancel-key
\* table.
C10_KeyRegistered ==
  \A c \in Conns : pc[c] \notin {"free", "closed"} => c \in backends

\* C12 (as stated): with the in-error flag clear, a Parse with non-empty
\* SQL of any name the statement map holds, the unnamed one included,
\* writes exactly one ErrorResponse and leaves the map as it is.
C12_ReparseAnyName ==
  [][\A c \in Conns :
       (~inError[c] /\ req'[c].t = "P" /\ ParseFrame(c)
        /\ req'[c].query # QEmpty /\ req'[c].name \in DOMAIN stmts[c])
       => (FrameTypes(out'[c]) = <<ErrorResponse>> /\ stmts'[c] = stmts[c])]_vars

\* C12 (amended): with the in-error flag clear, a Parse with non-empty SQL
\* of a non-empty name the map holds writes exactly one ErrorResponse and
\* leaves the map as it is; a Parse of the unnamed statement with SQL the
\* engine prepares writes ParseComplete and replaces the unnamed entry.
C12_NamedReparse ==
  [][\A c \in Conns :
       (~inError[c] /\ req'[c].t = "P" /\ ParseFrame(c)
        /\ req'[c].query # QEmpty /\ req'[c].name \in DOMAIN stmts[c])
       => IF req'[c].name # ""
          THEN /\ out'[c] = <<ErrorFrame(<<"prepared statement ", req'[c].name, " already exists">>)>>
               /\ stmts'[c] = stmts[c]
          ELSE EnginePrepare(RewriteShow(req'[c].query)) = "ok"
               => /\ FrameTypes(out'[c]) = <<ParseComplete>>
                  /\ stmts'[c][""].query = RewriteShow(req'[c].query)
                  /\ stmts'[c][""].stmt # stmts[c][""].stmt]_vars

\* A named statement with a handle was parsed a second time and refused.
C12_Witness ==
  /\ req[1].t = "P" /\ req[1].name = "s1" /\ req[1].query = QSel
  /\ "s1" \in DOMAIN stmts[1] /\ stmts[1]["s1"].stmt # 0
  /\ out[1] = <<ErrorFrame(<<"prepared statement ", "s1", " already exists">>)>>
  /\ inError[1]

\* C13: with the in-error flag clear, a Parse of a non-empty name the
\* statement map holds, whatever its SQL text (the empty text included),
\* writes exactly one ErrorResponse and no ParseComplete and leaves the
\* statement stored under that name as it is.
C13_NamedReuseIsError ==
  [][\A c \in Conns :
       (~inError[c] /\ req'[c].t = "P" /\ ParseFrame(c)
        /\ req'[c].name # "" /\ req'[c].name \in DOMAIN stmts[c])
       => (/\ FrameTypes(out'[c]) = <<ErrorResponse>>
           /\ stmts'[c][req'[c].name] = stmts[c][req'[c].name])]_vars

\* C14: a simple Query matching DISCARD ALL leaves the statement map and
\* the portal map empty and writes exactly one CommandComplete
\* "DISCARD ALL" (then ReadyForQuery); the next frame, if a Bind, Describe
\* or Execute of whatever name, is answered by exactly one ErrorResponse,
\* and if a Parse of a non-empty name whose SQL is empty or prepared by
\* the engine, by ParseComplete, the name being stored.
C14_DiscardAll ==
  [][\A c \in Conns :
       /\ (req'[c].t = "Q" /\ QueryFrame(c) /\ MatchDiscardAll(req'[c].query))
          => (/\ stmts'[c] = << >> /\ portal'[c] = << >>
              /\ out'[c] = <<CommandCompleteFrame(<<"DISCARD ALL">>), RFQ>>
              /\ ~inError'[c] /\ pc'[c] = "loop")
       /\ (req[c].t = "Q" /\ MatchDiscardAll(req[c].query) /\ pc[c] = "loop")
          => (/\ (req'[c].t \in {"B", "D", "E"}
                  /\ (BindFrame(c) \/ DescribeFrame(c) \/ ExecuteFrame(c)))
                 => (FrameTypes(out'[c]) = <<ErrorResponse>> /\ pc'[c] = "loop")
              /\ (req'[c].t = "P" /\ ParseFrame(c) /\ req'[c].name # ""
                  /\ (req'[c].query = QEmpty
                      \/ EnginePrepare(RewriteShow(req'[c].query)) = "ok"))
                 => (FrameTypes(out'[c]) = <<ParseComplete>>
                     /\ req'[c].name \in DOMAIN stmts'[c]))]_vars

\* DISCARD ALL ran on a connection that held a statement with a handle.
C14_Witness ==
  /\ req[1].t = "Q" /\ MatchDiscardAll(req[1].query)
  /\ pc[1] = "loop"
  /\ \E h \in Handles : hstate[h] = "closed"
  /\ stmts[1] = << >> /\ portal[1] = << >>
  /\ out[1] = <<CommandCompleteFrame(<<"DISCARD ALL">>), RFQ>>

\* C15: once a connection is destroyed, no engine statement handle that a
\* Parse created on it is still open, and its cancel key is not in the
\* table.
C15_HandlesClosedAtClose ==
  \A c \in Conns :
    pc[c] = "closed" => (c \notin backends /\ \A h \in Handles : hstate[h] # "open")

\* C16: when the worker has entered its loop after AuthenticationOk and has
\* read no request frame yet, the frames written after AuthenticationOk are
\* exactly: one BackendKeyData carrying the connection's key, one
\* ParameterStatus for each entry of parameterStatus and no other, and one
\* ReadyForQuery with status 'I'.
C16_Greeting ==
  \A c \in Conns :
    (pc[c] = "loop" /\ req[c].t \in {"startup", "p"} /\ authOk[c])
    => LET w == out[c]
           n == Len(w)
       IN /\ n >= 6
          /\ w[n - 5].t = Authentication /\ w[n - 5] = AuthOKFrame
          /\ w[n - 4].t = BackendKeyData /\ w[n - 4].body = c
          /\ \A i \in (n - 3)..(n - 1) : w[i].t = ParameterStatus
          /\ {w[i].body : i \in (n - 3)..(n - 1)} = parameterStatus
          /\ w[n].t = ReadyForQuery /\ w[n].body = TransactionStatusIdle
          /\ \A i \in 1..(n - 6) : w[i].t = Authentication

\* The loop was entered after a verified SCRAM exchange.
C16_Witness ==
  /\ pc[1] = "loop" /\ req[1].t = "p" /\ authOk[1] /\ verified[1]
  /\ enableAuth
  /\ Len(out[1]) >= 6 /\ out[1][Len(out[1])] = RFQ

\* C17: every tagged frame the codec writes has 5 + len(body) bytes, its
\* first byte the tag and its length field len(body) + 4, for an empty or
\* nil body and for ReadyForQuery as well.
C17_FrameLength ==
  wire.op = "Write"
  => /\ Len(wire.written) = 5 + Len(wire.payload.data)
     /\ Uint32(SubSeq(wire.written, 2, 5)) = Len(wire.payload.data) + 4
     /\ SubSeq(wire.written, 6, Len(wire.written)) = wire.payload.data

\* CopyFail was written with a nil body.
C17_Witness ==
  /\ wire.op = "Write"
  /\ wire.payload.nil
  /\ wire.written = <<CopyFail, 0, 0, 0, 4>>

\* C18: every ReadMessage first discards what was not consumed of the body
\* of the frame before (all of it when it was never read, nothing when it
\* was read), so the k-th ReadMessage returns the tag and the length of the
\* k-th frame the client sent and leaves the reader at that frame's body.
C18_FrameBoundary ==
  wire.op = "ReadMessage"
  => LET k == wire.nread
         f == wire.sent[k]
     IN /\ wire.lastMsg.Typ = f.Typ
        /\ wire.lastMsg.Length = Len(f.body) + 4
        /\ wire.rd = f.body \o ClientStream(SubSeq(wire.sent, k + 1, Len(wire.sent)))
        /\ wire.skipped = IF k > 1 /\ ~wire.prevRead THEN Len(wire.sent[k - 1].body) ELSE 0

\* The second frame was read after the body of the first, not empty, was
\* left unread.
C18_Witness ==
  /\ wire.op = "ReadMessage"
  /\ wire.nread = 2
  /\ ~wire.prevRead
  /\ wire.skipped > 0
  /\ wire.lastMsg.Typ = wire.sent[2].Typ

\* C19 (as stated): a frame with another tag writes no frame and leaves
\* needReadyMessage (ready or busy), the in-error flag and both maps as
\* they were.
C19_OtherStays ==
  [][\A c \in Conns :
       (req'[c].t = "H" /\ OtherFrame(c))
       => (/\ out'[c] = << >>
           /\ needReadyMessage'[c] = needReadyMessage[c]
           /\ inError'[c] = inError[c]
           /\ stmts'[c] = stmts[c] /\ portal'[c] = portal[c])]_vars

\* C19 (amended): a frame with another tag writes no frame, not even a
\* ReadyForQuery before the next read, and leaves the connection busy,
\* whether it was ready or busy; the in-error flag and both maps stay as
\* they were and the worker stays in its loop.
C19_OtherGoesBusy ==
  [][\A c \in Conns :
       (req'[c].t = "H" /\ OtherFrame(c))
       => (/\ out'[c] = << >>
           /\ ~needReadyMessage'[c]
           /\ inError'[c] = inError[c]
           /\ stmts'[c] = stmts[c] /\ portal'[c] = portal[c]
           /\ pc'[c] = "loop")]_vars

\* A frame with another tag was handled while a statement was stored.
C19_Witness ==
  /\ req[1].t = "H"
  /\ pc[1] = "loop"
  /\ out[1] = << >>
  /\ ~needReadyMessage[1]
  /\ stmts[1] # << >>

\* The frames that end the answer to a simple Query.
TerminalTags == {CommandComplete, EmptyQueryResponse, ErrorResponse, CopyFail}

\* C20: whatever its outcome, the handling of a simple Query frame ends
\* with the worker in its loop, exactly one frame among CommandComplete,
\* EmptyQueryResponse, ErrorResponse and CopyFail written, exactly one
\* ReadyForQuery after it, and the in-error flag false.
C20_QueryAnswered ==
  [][\A c \in Conns :
       (\/ req'[c].t = "Q" /\ pc[c] = "loop" /\ pc'[c] # "running" /\ QueryFrame(c)
        \/ pc[c] = "running" /\ cur[c].op = "Query" /\ QueryDone(c))
       => LET w == out'[c]
              n == Len(w)
          IN /\ pc'[c] = "loop" /\ ~panicked'
             /\ n >= 2
             /\ w[n] = RFQ
             /\ w[n - 1].t \in TerminalTags
             /\ \A i \in 1..(n - 2) : w[i].t \notin TerminalTags \cup {ReadyForQuery}
             /\ ~inError'[c]]_vars


\* C21: a simple Query goes to the engine as "select 0" if and only if
\* its text begins with the literal "show transaction_read_only"; any
\* other text, a proper prefix of the literal included, goes to the engine
\* as it was sent.
C21_ShowRewrite ==
  \A c \in Conns :
    (pc[c] = "running" /\ cur[c].op = "Query")
    => cur[c].query = IF HasPrefix(req[c].query, ShowLiteral) THEN SelectZero
                      ELSE req[c].query

\* The records of CSV data: its lines that are not empty, the last with or
\* without a line feed, each split at its commas.
RECURSIVE CsvLines(_)
CsvLines(data) ==
  LET i == IndexOf(data, "\n")
  IN IF data = << >> THEN << >>
     ELSE IF i = 0 THEN <<data>>
     ELSE (IF i = 1 THEN << >> ELSE <<SubSeq(data, 1, i - 1)>>)
          \o CsvLines(SubSeq(data, i + 1, Len(data)))
CsvRecords(data) == [j \in 1..Len(CsvLines(data)) |-> Fields(CsvLines(data)[j])]

\* Every record of data has a field for each column that its converter accepts.
WellFormedFor(types, data) ==
  \A j \in 1..Len(CsvRecords(data)) :
    /\ Len(CsvRecords(data)[j]) = Len(types)
    /\ \A i \in 1..Len(types) : Converts(types[i], CsvRecords(data)[j][i])

\* C22: a COPY ... FROM STDIN on a table of c columns is answered with one
\* CopyInResponse of format 0, column count c and c zero format codes; once
\* the client has sent n well-formed records of c fields in CopyData frames
\* and then CopyDone, and the sink refuses nothing, the copy is over: the n
\* rows were appended in order, the sink was flushed once, CommandComplete
\* "COPY n" was written once, and the copy read no frame after CopyDone.
C22_CopyIn ==
  \A c \in Conns :
    /\ (pc[c] = "copying" /\ ~panicked)
       => /\ Len(out[c]) = 1
          /\ out[c][1].t = CopyInResponse
          /\ out[c][1].body = <<0, Len(copy.types)>> \o [i \in 1..Len(copy.types) |-> 0]
    /\ (/\ pc[c] \in {"copying", "loop"} /\ req[c].t = "Q" /\ ~panicked
        /\ copy.done >= 1 /\ copy.fail = "none"
        /\ WellFormedFor(copy.types, copy.data))
       => /\ ~copy.on
          /\ pc[c] = "loop"
          /\ copy.late = 0
          /\ copy.rows = CsvRecords(copy.data)
          /\ copy.n = Len(CsvRecords(copy.data))
          /\ copy.flushes = 1
          /\ out[c] = <<CommandCompleteFrame(<<"COPY", copy.n>>),
                        ReadyForQueryMessage(TransactionStatusIdle)>>

\* C23: every POST request is given to exactly one of the handlers SELECT,
\* INSERT-with-format and generic execute, and that handler writes the
\* response: no POST is served without a status having been written.
C23_PostHandled ==
  (http.on /\ http.method = "POST")
  => (http.h \in {"select", "insert", "execute"} /\ http.status # 0)

\* C24: a SELECT whose trailing FORMAT clause names a format that is not
\* an output format is answered 400 "Unknown format <name>" and the engine
\* is not asked to run anything; a SELECT without FORMAT clause has the
\* format TabSeparated.
C24_UnknownFormat ==
  \A l \in LimitClauses, e \in {<< >>, <<";">>} :
    /\ \A kw \in Formats, f \in {"Foo", "JSONEachRow", "TabSeparatedWithNamesAndTypes"} :
         (/\ http.on /\ http.h = "select"
          /\ http.text \in {Sel \o l \o <<" ", kw, " ", f>> \o e,
                            Sel \o l \o <<" ", kw, " ", f>> \o e \o <<" ">>})
         => IF f \in chOutputFormats
            THEN http.format = <<f>> /\ http.status \in {200, 500} /\ http.queried
            ELSE /\ http.status = 400 /\ http.resp = <<"Unknown format", f>>
                 /\ ~http.queried
    /\ (http.on /\ http.h = "select" /\ http.text \in {Sel \o l \o e, Sel \o l \o e \o <<" ">>})
       => http.format = <<"TabSeparated">> /\ http.queried

\* C24 witness: a SELECT ... FORMAT Foo was answered 400.
C24_Witness ==
  /\ http.on /\ http.h = "select" /\ http.status = 400
  /\ http.text = Sel \o <<" ", "FORMAT", " ", "Foo">>
  /\ http.resp = <<"Unknown format", "Foo">>

\* The text the engine is asked to run for the SELECT text t: blanks at
\* the end are trimmed, and a FORMAT clause is cut with what follows it.
SqlOf(t, f, e) == IF f = << >> THEN t \o e ELSE t \o <<" ">>

\* C25: for all numbers a and b the SELECT rewrite turns LIMIT a, b into
\* LIMIT b OFFSET a, whatever blanks surround the comma, and leaves a text
\* without that clause (LIMIT b and LIMIT b OFFSET a included) as it is.
C25_LimitRewrite ==
  \A f \in FormatClauses, e \in {<< >>, <<";">>} :
    (http.on /\ http.h = "select" /\ http.queried)
    => /\ \A a, b \in Digits, sp1, sp2 \in {<< >>, <<" ">>} :
            LET t == Sel \o <<" ", "LIMIT", " ", a>> \o sp1 \o <<",">> \o sp2 \o <<b>>
            IN http.text \in {t \o f \o e, t \o f \o e \o <<" ">>}
               => http.sql = SqlOf(Sel \o <<" ", "LIMIT", " ", b, " ", "OFFSET", " ", a>>, f, e)
       /\ \A a, b \in Digits :
            \A t \in {Sel, Sel \o <<" ", "LIMIT", " ", b>>,
                      Sel \o <<" ", "LIMIT", " ", b, " ", "OFFSET", " ", a>>} :
              http.text \in {t \o f \o e, t \o f \o e \o <<" ">>} => http.sql = SqlOf(t, f, e)

\* C25 witness: LIMIT 5, 10 was rewritten and run.
C25_Witness ==
  /\ http.on /\ http.h = "select" /\ http.status = 200
  /\ http.text = Sel \o <<" ", "LIMIT", " ", "5", ",", " ", "10">>
  /\ http.sql = Sel \o <<" ", "LIMIT", " ", "10", " ", "OFFSET", " ", "5">>

\* C26: in INSERT-with-format, when an AppendRow failed the status is 500
\* and never 200; 200 is written only when every row was appended and the
\* flush succeeded.
C26_AppendFailureIs500 ==
  (http.on /\ http.h = "insert" /\ http.appendErr) => http.status = 500

\* The objects of a JSONEachRow body.
JsonRows(src) == SelectSeq(src, LAMBDA x : x \in JsonTokens \ {"{"})

\* C27: the JSONEachRow reader gives, for every row and every target
\* column, the value of the column's key in that row's object, and null
\* when that object has no such key, whatever the earlier rows held; keys
\* that name no target column are ignored.
C27_JsonRows ==
  (http.on /\ http.h = "insert")
  => \A j \in 1..Len(http.rows) :
       \A i \in 1..Len(http.columns) :
         LET o == JsonObject(JsonRows(http.src)[j])
         IN http.rows[j][i] = IF http.columns[i] \in DOMAIN o THEN o[http.columns[i]]
                              ELSE "nil"

\* ---------------------------------------------------------------------------
\* Malformed inbound frames: the byte-level readers of wire.go and message.go
\* on frames whose length fields disagree with their contents.
\* ---------------------------------------------------------------------------

\* Length fields of a first frame, around the limits ReadStartUpMessage uses.
FirstLengths == {0, 3, 4, 7, 8, 12, 15, 16}

\* What the first four body bytes of a first frame say.
FirstKinds == {"startup", "cancel"}

\* Wire.ReadStartUpMessage: make([]byte, l-4) panics for l < 4,
\* binary.BigEndian.Uint32(buf) for len(buf) < 4, and the cancel branch's
\* buf[4:12] for len(buf) < 12. The kind is read from buf, so it exists
\* only from l = 8 on.
ReadStartUpMessagePanics(l, kind) ==
  \/ l - 4 < 0
  \/ l - 4 < 4
  \/ kind = "cancel" /\ l - 4 < 12

\* Bytes of a frame body: NUL and one other byte.
BodyBytes == {0, 1}
Bodies == SeqsUpTo(BodyBytes, MaxBody)

\* Message.Read: m.wire.buf[:m.Length-4] panics for Length < 4.
MessageReadPanics(length) == length - 4 < 0

\* goString: the bytes before the first NUL, or all of them.
goString(d) ==
  IF \E i \in 1..Len(d) : d[i] = 0
  THEN SubSeq(d, 1, (CHOOSE i \in 1..Len(d) : d[i] = 0 /\ \A j \in 1..(i - 1) : d[j] # 0) - 1)
  ELSE d

\* A parser's position: the bytes left, and whether a slice or a fixed-width
\* read went out of range.
Parsing(d) == [d |-> d, panic |-> FALSE]

\* d = d[n:], which panics for n > len(d).
Advance(s, n) ==
  IF s.panic \/ n > Len(s.d) THEN [d |-> << >>, panic |-> TRUE]
  ELSE [d |-> Drop(s.d, n), panic |-> FALSE]

\* goString(d) followed by d = d[len(str)+1:].
AfterString(s) == IF s.panic THEN s ELSE Advance(s, Len(goString(s.d)) + 1)

\* binary.BigEndian.Uint16(d) / Uint32(d) panic when d is shorter than the width.
Needs(s, width) == IF s.panic \/ Len(s.d) < width THEN [s EXCEPT !.panic = TRUE] ELSE s
Uint16(s) == IF Needs(s, 2).panic THEN 0 ELSE s.d[1] * 256 + s.d[2]

\* count times: a fixed-width read of width bytes at d, then d = d[width:].
RECURSIVE ReadMany(_, _, _)
ReadMany(s, count, width) ==
  IF s.panic \/ count = 0 THEN s
  ELSE ReadMany(Advance(Needs(s, width), width), count - 1, width)

\* ParseParseMessage: name, query, the parameter count with d = d[2:], and
\* per parameter d = d[4:] before Uint32(d).
ParseParseMessagePanics(d) ==
  LET s == Needs(AfterString(AfterString(Parsing(d))), 2)
      n == Uint16(s)
  IN ReadMany(Advance(s, 2), n, 4).panic

\* ParseBindMessage: portal, statement, the format codes (two bytes each) and
\* the value count.
ParseBindMessagePanics(d) ==
  LET s == Needs(AfterString(AfterString(Parsing(d))), 2)
      f == ReadMany(Advance(s, 2), Uint16(s), 2)
  IN Needs(f, 2).panic

\* ParseExecuteMessage: portal, then Uint32(d) for the row limit.
ParseExecuteMessagePanics(d) == Needs(AfterString(Parsing(d)), 4).panic

\* ParseDescribeMessage: d[0], then goString(d[1:]).
ParseDescribeMessagePanics(d) == Len(d) < 1

\* Run's switch on a tagged frame with the given length field and body: Read,
\* then the frame's parser. A Query body goes through goString alone.
FramePanics(t, length, d) ==
  \/ MessageReadPanics(length)
  \/ t = "P" /\ ParseParseMessagePanics(d)
  \/ t = "B" /\ ParseBindMessagePanics(d)
  \/ t = "E" /\ ParseExecuteMessagePanics(d)
  \/ t = "D" /\ ParseDescribeMessagePanics(d)

ParsedTags == {"Q", "P", "B", "E", "D"}

\* A first frame ReadStartUpMessage cannot read.
MalformedFirstFrame(c) ==
  /\ ~panicked
  /\ NoExecute
  /\ pc[c] = "startup"
  /\ \E l \in FirstLengths, kind \in FirstKinds :
       /\ ReadStartUpMessagePanics(l, kind)
       /\ Crash(c, [t |-> "first", Length |-> l, kind |-> kind])
  /\ UNCHANGED res

\* A tagged frame that Run reads and parses, with a length field below four
\* or a body shorter than its fields. Parse is parsed only outside the error
\* state, and Describe, Bind and Execute are not reached in it.
MalformedFrame(c) ==
  /\ ~panicked
  /\ NoExecute
  /\ pc[c] = "loop"
  /\ \E t \in ParsedTags, length \in 0..(MaxBody + 4), d \in Bodies :
       /\ length < 4 => d = << >>
       /\ length >= 4 => length = Len(d) + 4
       /\ t = "Q" \/ ~DropFrame(c)
       /\ FramePanics(t, length, d)
       /\ Crash(c, [t |-> t, Length |-> length, body |-> d])
  /\ UNCHANGED res

NextMalformed ==
  \E c \in Conns :
    \/ Accept(c)
    \/ StartupMessage(c)
    \/ CancelRequest(c)
    \/ MalformedFirstFrame(c)
    \/ MalformedFrame(c)
    \/ QueryFrame(c)
    \/ QueryDone(c)
    \/ SyncFrame(c)
    \/ TerminateFrame(c)

SpecMalformed == InitExt /\ [][NextMalformed]_vars

\* C28: a malformed inbound frame (a first frame shorter than eight bytes, a
\* cancel request shorter than sixteen, a tagged frame with a length field
\* below four, a Parse, Bind, Describe or Execute body shorter than its
\* fields) ends the worker that read it and nothing else: the process, and
\* with it the other workers and the accept loop, keeps running.
C28_MalformedFrameAbortsWorkerOnly ==
  \A c \in Conns : "Length" \in DOMAIN req[c] => ~panicked


\* C29: the OID a RowDescription advertises for a result column depends on
\* the column's engine type alone: a simple query's RowDescription carries
\* the OID schema inference gives for that type, whether the result is empty
\* or not and whether the first row holds NULL or a value.
C29_OidByEngineType ==
  \A c \in Conns :
    (req[c].t = "Q" /\ ~res[c].qerr /\ res[c].etype \in EngineTypes
       /\ duck2pgType(res[c].etype) # "panic") =>
      \A i \in 1..Len(out[c]) :
        out[c][i].t = RowDescription =>
          out[c][i].body = RowDescriptionOfTypes(<<res[c].etype>>).body

\* C30: Execute runs the stored statement handle with the bound values
\* exactly when the statement declares at most maxInputArgsUsePrepared
\* parameters; above that it prepares a statement afresh, runs it with no
\* arguments, and has closed it when it returns, whether the run succeeded or
\* failed, and has no handle left when the Prepare failed. Either way the
\* stored handles and the statement map are as they were.
C30_ExecuteHandles ==
  [][\A c \in Conns :
       (pc[c] = "running" /\ pc'[c] = "loop" /\ cur[c].op = "Execute") =>
         LET st == cur[c].p.stmt
             e == exec'
         IN /\ (e.ran = "stored") <=>
                 (st.numInput <= maxInputArgsUsePrepared /\ st.stmt # 0)
            /\ e.ran = "stored" => (e.args = "values" /\ e.fresh = "none")
            /\ st.numInput > maxInputArgsUsePrepared =>
                 /\ e.fresh \in {"failed", "closed"}
                 /\ e.fresh = "closed" <=> (e.ran = "fresh" /\ e.args = "nil")
                 /\ e.fresh = "failed" => res'[c] = NoRes
            /\ hstate' = hstate
            /\ stmts' = stmts]_vars

\* An Execute of a statement with more than maxInputArgsUsePrepared
\* parameters ran a fresh handle, which failed in the engine, and closed it,
\* while the stored handle is open.
C30_Witness ==
  \E c \in Conns :
    /\ req[c].t = "E" /\ pc[c] = "loop"
    /\ req[c].portal \in DOMAIN portal[c]
    /\ portal[c][req[c].portal].stmt.numInput > maxInputArgsUsePrepared
    /\ exec = [ran |-> "fresh", args |-> "nil", fresh |-> "closed"]
    /\ res[c].qerr
    /\ \E n \in DOMAIN stmts[c] :
         stmts[c][n].stmt # 0 /\ hstate[stmts[c][n].stmt] = "open"

\* ---------------------------------------------------------------------------
\* bindValues (pg_conn.go): the textual substitution of $N placeholders.
\* A text is a sequence of characters, a bound value what tryParseValue
\* delivers: nil, a string, an int64 or a float64 (here a number of tenths).
\* ---------------------------------------------------------------------------
SqlChars == {"$", "0", "1", "a", "'"}
DigitChars == {"0", "1", "2", "3", "4", "5", "6", "7", "8", "9"}
DigitValue(ch) ==
  CASE ch = "0" -> 0 [] ch = "1" -> 1 [] ch = "2" -> 2 [] ch = "3" -> 3 [] ch = "4" -> 4
    [] ch = "5" -> 5 [] ch = "6" -> 6 [] ch = "7" -> 7 [] ch = "8" -> 8 [] ch = "9" -> 9
DigitChar(d) ==
  CASE d = 0 -> "0" [] d = 1 -> "1" [] d = 2 -> "2" [] d = 3 -> "3" [] d = 4 -> "4"
    [] d = 5 -> "5" [] d = 6 -> "6" [] d = 7 -> "7" [] d = 8 -> "8" [] d = 9 -> "9"

NilValue == [k |-> "nil"]
StringValue(str) == [k |-> "string", s |-> str]
Int64Value(n) == [k |-> "int64", v |-> n]
Float64Value(t) == [k |-> "float64", tenths |-> t]
BindArgs ==
  {NilValue, StringValue(<<"a", "'">>), Int64Value(-12), Int64Value(0), Float64Value(15),
   Float64Value(20)}

\* strconv.ParseInt(digits, 10, 64) on a run of digits.
RECURSIVE ParseInt(_)
ParseInt(ds) ==
  IF ds = << >> THEN 0
  ELSE ParseInt(SubSeq(ds, 1, Len(ds) - 1)) * 10 + DigitValue(ds[Len(ds)])

\* strconv.FormatInt(v, 10)
RECURSIVE Decimal(_)
Decimal(n) == IF n < 10 THEN <<DigitChar(n)>> ELSE Append(Decimal(n \div 10), DigitChar(n % 10))
FormatInt(v) == IF v < 0 THEN <<"-">> \o Decimal(0 - v) ELSE Decimal(v)

\* strconv.FormatFloat(v, 'f', -1, 64) on a number of tenths: the shortest
\* text, without a fraction when there is none.
FormatFloat(t) ==
  LET a == IF t < 0 THEN 0 - t ELSE t
      sign == IF t < 0 THEN <<"-">> ELSE << >>
  IN IF a % 10 = 0 THEN sign \o Decimal(a \div 10)
     ELSE sign \o Decimal(a \div 10) \o <<".", DigitChar(a % 10)>>

\* strings.ReplaceAll(vv, "'", "''")
RECURSIVE DoubleQuotes(_)
DoubleQuotes(str) ==
  IF str = << >> THEN << >>
  ELSE (IF Head(str) = "'" THEN <<"'", "'">> ELSE <<Head(str)>>) \o DoubleQuotes(Tail(str))

\* The switch of bindValues on a value that is not nil.
BindLiteral(v) ==
  CASE v.k = "string" -> <<"'">> \o DoubleQuotes(v.s) \o <<"'">>
    [] v.k = "int64" -> FormatInt(v.v)
    [] v.k = "float64" -> FormatFloat(v.tenths)

\* The number of digits after the "$" at the head of seg: the inner loop.
RECURSIVE DigitRun(_, _)
DigitRun(seg, i) ==
  IF i < Len(seg) - 1 /\ seg[i + 2] \in DigitChars THEN DigitRun(seg, i + 1) ELSE i

\* The outer loop of bindValues from lastIndex on, sb written so far.
\* args[valueIdx-1] is out of range for valueIdx = 0: the function panics.
RECURSIVE bindLoop(_, _, _, _)
bindLoop(sql, args, lastIndex, sb) ==
  LET rest == SubSeq(sql, lastIndex + 1, Len(sql))
  IN IF ~\E j \in 1..Len(rest) : rest[j] = "$"
     THEN [panic |-> FALSE, out |-> sb \o rest]
     ELSE LET idx == (CHOOSE j \in 1..Len(rest) :
                        rest[j] = "$" /\ \A k \in 1..(j - 1) : rest[k] # "$") - 1
              sb1 == sb \o SubSeq(rest, 1, idx)
              last1 == lastIndex + idx
              seg == SubSeq(sql, last1 + 1, Len(sql))
              i == DigitRun(seg, 0)
              valueIdx == ParseInt(SubSeq(seg, 2, i + 1))
          IN IF i = 0 THEN bindLoop(sql, args, last1 + 1, Append(sb1, "$"))
             ELSE IF valueIdx > Len(args)
             THEN bindLoop(sql, args, last1 + i + 1, sb1 \o <<"n", "u", "l", "l">>)
             ELSE IF valueIdx - 1 < 0 THEN [panic |-> TRUE, out |-> sb1]
             ELSE IF args[valueIdx].k = "nil"
             THEN bindLoop(sql, args, last1 + i + 1, sb1 \o <<"n", "u", "l", "l">>)
             ELSE bindLoop(sql, args, last1 + i + 1, sb1 \o BindLiteral(args[valueIdx]))

bindValues(sql, args) == bindLoop(sql, args, 0, << >>)

\* bindValues runs on the arguments drawn at the start.
BindValues ==
  /\ ~bind.done
  /\ LET r == bindValues(bind.sql, bind.args)
     IN bind' = [bind EXCEPT !.done = TRUE, !.panic = r.panic, !.out = r.out]
  /\ UNCHANGED <<pgVars, wire, copy, http, exec>>

InitBind ==
  /\ InitServer /\ ~enableAuth /\ wire = NoWire /\ copy = NoCopy /\ http = NoHttp
  /\ exec = NoExec
  /\ \E sql \in SeqsUpTo(SqlChars, MaxSql), args \in SeqsUpTo(BindArgs, MaxArgs) :
       bind = [NoBind EXCEPT !.sql = sql, !.args = args]
SpecBind == InitBind /\ [][BindValues]_vars

\* The text the substitution is to give: each "$" followed by digits stands
\* for the value of that number, every other character for itself. A number
\* with no value among the bound ones leaves the rendering open (some).
RECURSIVE Substituted(_, _, _)
Substituted(sql, args, some) ==
  IF sql = << >> THEN << >>
  ELSE IF Head(sql) = "$" /\ DigitRun(sql, 0) > 0
  THEN LET i == DigitRun(sql, 0)
           n == ParseInt(SubSeq(sql, 2, i + 1))
           lit == IF n \notin 1..Len(args) THEN some
                  ELSE IF args[n].k = "nil" THEN <<"n", "u", "l", "l">>
                  ELSE IF args[n].k = "string"
                  THEN <<"'">> \o DoubleQuotes(args[n].s) \o <<"'">>
                  ELSE IF args[n].k = "int64" THEN FormatInt(args[n].v)
                  ELSE FormatFloat(args[n].tenths)
       IN lit \o Substituted(SubSeq(sql, i + 2, Len(sql)), args, some)
  ELSE <<Head(sql)>> \o Substituted(Tail(sql), args, some)

\* C31: for every text and every list of bound values bindValues returns,
\* without failing, the text with each placeholder $N replaced by the
\* literal of value N (a quoted string with its quotes doubled, the decimal
\* text of a number, null for a nil) and everything else copied; it returns
\* also for $0, for N beyond the bound values and for a "$" with no digit.
C31_BindValues ==
  bind.done =>
    /\ ~bind.panic
    /\ \E some \in {<<"n", "u", "l", "l">>, << >>} :
         bind.out = Substituted(bind.sql, bind.args, some)


\* C32: a CopyFail, or any frame that is neither CopyData nor CopyDone,
\* received while the copy reads ends it with one ErrorResponse and the
\* ReadyForQuery of the loop: no CommandComplete is written, the sink is
\* not flushed and no further row is appended.
C32_CopyFailEndsCopy ==
  [][\A c \in Conns :
       (pc[c] = "copying" /\ copy'.last \notin {CopyData, CopyDone} /\ copy' # copy) =>
         /\ pc'[c] = "loop"
         /\ ~copy'.on
         /\ FrameTypes(out'[c]) = <<ErrorResponse, ReadyForQuery>>
         /\ out'[c][2] = ReadyForQueryMessage(TransactionStatusIdle)
         /\ copy'.flushes = copy.flushes
         /\ copy'.n = copy.n /\ copy'.rows = copy.rows
         /\ ~panicked']_vars

\* A copy that had appended a row was ended by a CopyFail.
C32_Witness ==
  /\ pc[1] = "loop" /\ ~copy.on /\ copy.last = CopyFail
  /\ copy.n >= 1 /\ copy.flushes = 0
  /\ FrameTypes(out[1]) = <<ErrorResponse, ReadyForQuery>>

\* C33: a Describe of an existing prepared statement that holds an engine
\* handle is answered with a ParameterDescription followed by a
\* RowDescription, whatever its number of parameters, zero included; a
\* Describe of a statement parsed from an empty text with NoData alone.
C33_DescribeStatement ==
  \A c \in Conns :
    (/\ pc[c] = "loop" /\ ~panicked /\ ~inError[c]
     /\ req[c].t = "D" /\ req[c].typ = "S" /\ req[c].name \in DOMAIN stmts[c]) =>
      IF stmts[c][req[c].name].stmt # 0
      THEN FrameTypes(out[c]) = <<ParameterDescription, RowDescription>>
      ELSE FrameTypes(out[c]) = <<NoData>>

\* C34: in InsertFormat, once the request context is cancelled the row loop
\* stops at the next row boundary and answers 500 "Request cancelled": no
\* row is appended from that boundary on, the sink is not flushed by the
\* handler and 200 is not written.
C34_InsertCancelled ==
  (http.on /\ http.h = "insert" /\ http.ctxAt > 0) =>
    /\ http.status = 500
    /\ http.resp = <<"Request cancelled">>
    /\ Len(http.rows) = http.ctxAt - 1

\* One connection from its startup, with or without authentication, through
\* the simple and the extended query protocol.
NextLoop ==
  \/ Accept(1)
  \/ StartupMessage(1)
  \/ SASLInitialResponse(1)
  \/ SASLResponse(1)
  \/ QueryFrame(1)
  \/ QueryDone(1)
  \/ ParseFrame(1)
  \/ BindFrame(1)
  \/ DescribeFrame(1)
  \/ ExecuteFrame(1)
  \/ ExecuteDone(1)
  \/ SyncFrame(1)
  \/ TerminateFrame(1)

SpecLoop == Init /\ [][NextLoop]_vars

\* The ReadyForQuery frames among fs.
ReadyFrames(fs) == SelectSeq(fs, LAMBDA f : f.t = ReadyForQuery)

\* C35: a worker that waits for the next frame in its loop has written
\* exactly one ReadyForQuery since the frame before if that was the end of
\* the startup, a Query or a Sync, and none if it was a Parse, Bind,
\* Describe or Execute; every ReadyForQuery carries the status 'I'.
C35_ReadyForQuery ==
  \A c \in Conns :
    (pc[c] = "loop" /\ ~panicked) =>
      /\ req[c].t \in {"startup", "p", "Q", "S"} => Len(ReadyFrames(out[c])) = 1
      /\ req[c].t \in {"P", "B", "D", "E"} => Len(ReadyFrames(out[c])) = 0
      /\ \A i \in 1..Len(out[c]) :
           out[c][i].t = ReadyForQuery => out[c][i].body = TransactionStatusIdle

\* C36: a worker in its loop whose in-error flag is set owes no
\* ReadyForQuery: in-error implies busy, from the first iteration on.
C36_InErrorIsBusy ==
  \A c \in Conns :
    (pc[c] \in {"loop", "running"} /\ inError[c]) => ~needReadyMessage[c]

\* C38: while a connection is served, every portal of its portal map, and
\* the portal an Execute is running, refers to a statement whose engine
\* handle, if it has one, is open: no Execute runs a closed handle, also
\* after a re-parse of the unnamed statement, a DISCARD ALL or an Execute on
\* the many-parameter path.
C38_PortalHandlesOpen ==
  \A c \in Conns :
    (pc[c] \in {"loop", "running"} /\ ~panicked) =>
      /\ \A pn \in DOMAIN portal[c] :
           portal[c][pn].stmt.stmt # 0 => hstate[portal[c][pn].stmt.stmt] = "open"
      /\ cur[c].op = "Execute" =>
           (cur[c].p.stmt.stmt # 0 => hstate[cur[c].p.stmt.stmt] = "open")

\* A portal is bound to a statement with a handle that the statement map no
\* longer holds: the name was parsed again after the Bind.
C38_Witness ==
  \E c \in Conns : \E pn \in DOMAIN portal[c] :
    /\ pc[c] = "loop"
    /\ portal[c][pn].stmt.stmt # 0
    /\ hstate[portal[c][pn].stmt.stmt] = "open"
    /\ \A n \in DOMAIN stmts[c] : stmts[c][n].stmt # portal[c][pn].stmt.stmt
    /\ stmts[c] # << >>

\* The bodies of the frames fs one after the other.
RECURSIVE CopyBodies(_)
CopyBodies(fs) == IF fs = << >> THEN << >> ELSE Head(fs).body \o CopyBodies(Tail(fs))

\* C39: the bytes copyReader.Read hands to the CSV parser are the bodies of
\* the CopyData frames in the order they arrived, whatever the frames and
\* the sizes of the read requests: at every moment the bytes handed over,
\* followed by the bytes still in copyReader.buf, are the bodies of the
\* frames read so far, so a frame is read only when the body before it was
\* handed over whole, and at CopyDone the parser has every body.
C39_CopyStream ==
  wire.op = "copy" =>
    /\ wire.p \o SliceBytes(wire.buf, wire.r) = CopyBodies(SubSeq(wire.sent, 1, wire.nread))
    /\ wire.err = "io.EOF" => wire.p = CopyBodies(wire.sent)
    /\ wire.err \in {"none", "io.EOF"}

\* Of two bodies the first, two bytes long, was handed over in part: a read
\* request of one byte left the slice copyReader.buf at offset 1.
C39_Witness ==
  /\ wire.op = "copy" /\ wire.err = "none"
  /\ Len(wire.sent) = 3 /\ wire.nread = 1
  /\ Len(wire.sent[1].body) = 2 /\ Len(wire.sent[2].body) = 1
  /\ wire.r.shared /\ wire.r.off = 1 /\ wire.r.n = 1
  /\ wire.p = <<wire.sent[1].body[1]>>

\* The records of the CSV text data: the fields of each line that ended
\* with a line feed, empty lines left out.
RECURSIVE CompleteRecords(_)
CompleteRecords(data) ==
  LET i == IndexOf(data, "\n")
      rest == CompleteRecords(SubSeq(data, i + 1, Len(data)))
  IN IF i = 0 THEN << >>
     ELSE IF i = 1 THEN rest
     ELSE <<Fields(SubSeq(data, 1, i - 1))>> \o rest

\* The records the parser has met when the frames of k.data arrived: a last
\* line without a line feed is one only after the CopyDone.
RecordsRead(k) == IF k.done > 0 THEN CsvRecords(k.data) ELSE CompleteRecords(k.data)

\* Record i of recs is the first that the table of column types does not
\* take as it is: every record before it has one field per column and
\* every field of those converts.
FirstMismatch(types, recs, i) ==
  /\ i \in 1..Len(recs)
  /\ Len(recs[i]) # Len(types)
  /\ \A j \in 1..(i - 1) : Len(recs[j]) = Len(types) /\ FirstBad(types, recs[j]) = 0

\* C40: during a COPY a record with more or fewer fields than the table has
\* columns is answered with an error and the connection goes on: the worker
\* does not panic, the loop stops with an error once such a record has
\* arrived, and every row appended has the fields of a record with one
\* field per column, none left over from another record or from the start.
C40_FieldCountMismatch ==
  LET recs == RecordsRead(copy)
  IN copy.types # << >> =>
       /\ copy.st # "panic"
       /\ \A i \in 1..Len(copy.rows) :
            /\ i <= Len(recs)
            /\ Len(recs[i]) = Len(copy.types)
            /\ copy.rows[i] = recs[i]
       /\ (copy.fail = "none" /\ \E i \in 1..Len(recs) : FirstMismatch(copy.types, recs, i))
            => copy.st = "err"

=============================================================================
